---- MODULE Spec2Model ----
(***************************************************************************)
(* Model of the workout-log plugin: the progression engine                 *)
(* (applyProgression), the workout reset (resetWorkout), and the session   *)
(* callbacks of the code block processor with their timers; the file       *)
(* updater (updateCodeBlock and its per-path lock) on a note of lines; and *)
(* the text functions (parseProgressionValue, formatProgressionValue,      *)
(* parseDurationToSeconds, formatDurationHuman, parseExercise,             *)
(* serializeExercise) on texts held as sequences of characters.            *)
(*                                                                         *)
(* Numbers: every numeric parameter value is kept in hundredths, the       *)
(* precision applyProgression rounds to (Math.round(x * 100) / 100), so    *)
(* 100 stands for "1" and 250 for "2.5".  An optional string field         *)
(* (initialValue, maxValue, startDate, ...) is a sequence: << >> is        *)
(* undefined, << v >> is the value v.                                      *)
(***************************************************************************)
EXTENDS Integers, Sequences, FiniteSets, TLC

VARIABLES
    file,          \* the workout held by the source block (its text)
    closures,      \* the callback closures createCallbacks built, by slot
    live,          \* the slot of the closure of the rendered block
    timers,        \* TimerManager: the running timers, by workout id
    logQueue,      \* logWorkout calls in flight, with the handler awaiting each
    writeQueue,    \* updateCodeBlock calls in flight
    sectionAvail,  \* whether ctx.getSectionInfo(el) returns a section now
    logged,        \* the workouts handed to the logger since the last Start
    sessionId,     \* the workout id the last Start started its timer under
    scripted,      \* every callback so far was applied to the active exercise
    sessions,      \* the number of Starts so far
    fnIn, fnOut, fnPc, \* a pure function's input, output and stage
    vault,         \* the note of the block: whether it exists, and its lines
    calls,         \* the updateCodeBlock calls, by caller
    updateLocks,   \* FileUpdater.updateLocks: the lock stored for the note's path
    waiters,       \* the calls awaiting a lock, in the order they began to wait
    microtasks     \* the calls whose awaited lock resolved, in resumption order

sessionVars == << file, closures, live, timers, logQueue, writeQueue,
                  sectionAvail, logged, sessionId, scripted, sessions >>
updaterVars == << vault, calls, updateLocks, waiters, microtasks >>
fnVars == << fnIn, fnOut, fnPc, updaterVars >>
vars == << sessionVars, fnVars >>

----------------------------------------------------------------------------
(* Generic helpers *)

Undef == << >>
Some(v) == << v >>
IsDef(o) == Len(o) > 0
Val(o) == o[1]

InsertAt(s, i, e) == SubSeq(s, 1, i) \o << e >> \o SubSeq(s, i + 1, Len(s))

\* the first of a set of positions
First(S) == CHOOSE i \in S : \A j \in S : i <= j

----------------------------------------------------------------------------
(* Exercise parameters *)

\* key.toLowerCase()
Lower(key) ==
    CASE key = "Reps" -> "reps"
      [] key = "Weight" -> "weight"
      [] key = "Duration" -> "duration"
      [] key = "Sets" -> "sets"
      [] OTHER -> key

\* key.charAt(0).toLowerCase()
VarName(key) ==
    CASE Lower(key) = "reps" -> "r"
      [] Lower(key) = "weight" -> "w"
      [] Lower(key) = "duration" -> "d"
      [] Lower(key) = "sets" -> "s"
      [] OTHER -> "x"

NoFormula == [op |-> "none", v |-> "", u |-> "", k |-> 0]
\* (v+k)
Add(v, k) == [op |-> "add", v |-> v, u |-> "", k |-> k]
\* (v+u)
AddVar(v, u) == [op |-> "addv", v |-> v, u |-> u, k |-> 0]
\* (v/k)
Div(v, k) == [op |-> "div", v |-> v, u |-> "", k |-> k]

Param(key, value, editable, formula, initial, max) ==
    [key |-> key, value |-> value, editable |-> editable,
     formula |-> formula, initialValue |-> initial, maxValue |-> max]

\* !param.progressionFormula
HasFormula(p) == p.formula.op # "none"
\* param.maxValue is a non-empty string
HasMax(p) == IsDef(p.maxValue)
IsWeight(p) == Lower(p.key) = "weight"
IsReps(p) == Lower(p.key) = "reps"
IsDuration(p) == Lower(p.key) = "duration"

----------------------------------------------------------------------------
(* Formula evaluator *)

\* The evaluation of a formula over the variable map: the exact quotient
\* num/den (in hundredths), or a failure (an undefined variable is a
\* ReferenceError, a division by zero is not finite).
evaluateProgressionFormula(f, variables) ==
    CASE f.op = "add" ->
            IF f.v \in DOMAIN variables
            THEN [ok |-> TRUE, num |-> variables[f.v] + f.k, den |-> 1]
            ELSE [ok |-> FALSE, num |-> 0, den |-> 1]
      [] f.op = "addv" ->
            IF f.v \in DOMAIN variables /\ f.u \in DOMAIN variables
            THEN [ok |-> TRUE, num |-> variables[f.v] + variables[f.u], den |-> 1]
            ELSE [ok |-> FALSE, num |-> 0, den |-> 1]
      [] f.op = "div" ->
            IF f.v \in DOMAIN variables /\ f.k > 0
            THEN [ok |-> TRUE, num |-> variables[f.v], den |-> f.k]
            ELSE [ok |-> FALSE, num |-> 0, den |-> 1]
      [] OTHER -> [ok |-> FALSE, num |-> 0, den |-> 1]

\* Math.round(newValue * 100) / 100 on a value held in hundredths: the
\* nearest integer, a half rounding up.
RoundedValue(e) == (2 * e.num + e.den) \div (2 * e.den)

----------------------------------------------------------------------------
(* Progression engine *)

SetVar(variables, name, value) ==
    [n \in DOMAIN variables \cup {name} |->
        IF n = name THEN value ELSE variables[n]]

\* the variable map built from every non-Duration parameter
RECURSIVE BuildVariables(_, _)
BuildVariables(params, variables) ==
    IF params = << >> THEN variables
    ELSE LET p == Head(params)
         IN  BuildVariables(Tail(params),
                IF IsDuration(p) THEN variables
                ELSE SetVar(variables, VarName(p.key), p.value))

EmptyVars == [n \in {} |-> 0]

\* whether pass 1 processes the parameter at all
InFirstPass(p) == HasFormula(p) /\ HasMax(p) /\ ~IsWeight(p)

\* a wrap that never returns to initial
ResetValueKeeps(p) == p.value

\* param.initialValue || param.value
ResetValue(p) == IF IsDef(p.initialValue) THEN Val(p.initialValue) ELSE p.value

\* a value above max always treated as a wrap
WrapsAtMaxAlways(currentVal, maxVal) == TRUE

\* a value above max always capped: progression stalls at max
WrapsAtMaxNever(currentVal, maxVal) == FALSE

\* whether a value above max wraps (rather than being capped)
WrapsAtMax(currentVal, maxVal) == currentVal >= maxVal

\* one parameter of the first pass, a failed evaluation not caught apart:
\* the value is overwritten with the failure's result
FirstPassStepFailureClears(st, p) ==
    IF ~InFirstPass(p) THEN [st EXCEPT !.out = Append(@, p)]
    ELSE
      LET e == evaluateProgressionFormula(p.formula, st.variables)
          rounded == RoundedValue(e)
          maxVal == Val(p.maxValue)
          vn == VarName(p.key)
      IN  IF rounded > maxVal
          THEN IF WrapsAtMax(p.value, maxVal)
               THEN [variables |-> SetVar(st.variables, vn, ResetValue(p)),
                     out |-> Append(st.out, [p EXCEPT !.value = ResetValue(p)]),
                     overflowed |-> st.overflowed \cup {p.key},
                     repsWrapped |-> st.repsWrapped \/ IsReps(p)]
               ELSE [st EXCEPT !.variables = SetVar(@, vn, maxVal),
                               !.out = Append(@, [p EXCEPT !.value = maxVal])]
          ELSE [st EXCEPT !.variables = SetVar(@, vn, rounded),
                          !.out = Append(@, [p EXCEPT !.value = rounded])]

\* one parameter of the first pass: the state after it
FirstPassStep(st, p) ==
    IF ~InFirstPass(p) THEN [st EXCEPT !.out = Append(@, p)]
    ELSE
      LET e == evaluateProgressionFormula(p.formula, st.variables)
          rounded == RoundedValue(e)
          maxVal == Val(p.maxValue)
          vn == VarName(p.key)
      IN  IF ~e.ok THEN [st EXCEPT !.out = Append(@, p)]
          ELSE IF rounded > maxVal
          THEN IF WrapsAtMax(p.value, maxVal)
               THEN [variables |-> SetVar(st.variables, vn, ResetValue(p)),
                     out |-> Append(st.out, [p EXCEPT !.value = ResetValue(p)]),
                     overflowed |-> st.overflowed \cup {p.key},
                     repsWrapped |-> st.repsWrapped \/ IsReps(p)]
               ELSE [st EXCEPT !.variables = SetVar(@, vn, maxVal),
                               !.out = Append(@, [p EXCEPT !.value = maxVal])]
          ELSE [st EXCEPT !.variables = SetVar(@, vn, rounded),
                          !.out = Append(@, [p EXCEPT !.value = rounded])]

RECURSIVE FirstPass(_, _)
FirstPass(params, st) ==
    IF params = << >> THEN st
    ELSE FirstPass(Tail(params), FirstPassStep(st, Head(params)))

FirstPassInit(params) ==
    [variables |-> BuildVariables(params, EmptyVars), out |-> << >>,
     overflowed |-> {}, repsWrapped |-> FALSE]

\* whether pass 2 processes the parameter
InSecondPass(p) == ~(HasMax(p) /\ ~IsWeight(p)) /\ HasFormula(p)

\* weightWrapped set whenever the result is above max
SecondPassWrapsAboveMax(p, variables) ==
    LET e == evaluateProgressionFormula(p.formula, variables)
    IN  /\ InSecondPass(p)
        /\ e.ok
        /\ IsWeight(p) /\ HasMax(p)
        /\ RoundedValue(e) > Val(p.maxValue)

\* pass 2 sets weightWrapped for this parameter
SecondPassWraps(p, variables) ==
    LET e == evaluateProgressionFormula(p.formula, variables)
    IN  /\ InSecondPass(p)
        /\ e.ok
        /\ IsWeight(p) /\ HasMax(p)
        /\ RoundedValue(e) > Val(p.maxValue)
        /\ WrapsAtMax(p.value, Val(p.maxValue))

\* the second pass without the check of the weight against its max
SecondPassParamUncapped(p, variables) ==
    IF ~InSecondPass(p) THEN p
    ELSE
      LET e == evaluateProgressionFormula(p.formula, variables)
      IN  IF ~e.ok THEN p ELSE [p EXCEPT !.value = RoundedValue(e)]

\* one parameter of the second pass
SecondPassParam(p, variables) ==
    IF ~InSecondPass(p) THEN p
    ELSE
      LET e == evaluateProgressionFormula(p.formula, variables)
          rounded == RoundedValue(e)
      IN  IF ~e.ok THEN p
          ELSE IF IsWeight(p) /\ HasMax(p) /\ rounded > Val(p.maxValue)
          THEN IF WrapsAtMax(p.value, Val(p.maxValue))
               THEN [p EXCEPT !.value = ResetValue(p)]
               ELSE [p EXCEPT !.value = Val(p.maxValue)]
          ELSE [p EXCEPT !.value = rounded]

\* pass 2 run unconditionally
SecondPassRunsAlways(st) == TRUE

\* pass 2 runs only when a pass-1 parameter wrapped
SecondPassRuns(st) == st.overflowed # {}

\* a call that never signals a set addition
ShouldAddSetNever(repsWrapped, weightWrapped, hasWeightParam) == FALSE

\* repsWrapped && (weightWrapped || !hasWeightParam)
ShouldAddSet(repsWrapped, weightWrapped, hasWeightParam) ==
    repsWrapped /\ (weightWrapped \/ ~hasWeightParam)

\* the scope of the function built from the expression: the variables are
\* substituted first, the identifiers left are read in the global scope
Scope(globals, variables) ==
    [n \in DOMAIN globals \cup DOMAIN variables |->
        IF n \in DOMAIN variables THEN variables[n] ELSE globals[n]]

\* applyProgression with pass 2 reading the variables as they were before
\* pass 1
applyProgressionInStale(globals, params) ==
    LET init == FirstPassInit(params)
        st == FirstPass(params, [init EXCEPT !.variables = Scope(globals, @)])
        stale == Scope(globals, init.variables)
        runs == SecondPassRuns(st)
        finalParams ==
            IF runs
            THEN [i \in 1..Len(st.out) |-> SecondPassParam(st.out[i], stale)]
            ELSE st.out
        weightWrapped ==
            runs /\ \E i \in 1..Len(st.out) : SecondPassWraps(st.out[i], stale)
        hasWeightParam == \E i \in 1..Len(params) : IsWeight(params[i])
    IN  [params |-> finalParams,
         shouldAddSet |-> ShouldAddSet(st.repsWrapped, weightWrapped, hasWeightParam)]

\* applyProgression run while the global scope holds globals
applyProgressionIn(globals, params) ==
    LET init == FirstPassInit(params)
        st == FirstPass(params, [init EXCEPT !.variables = Scope(globals, @)])
        runs == SecondPassRuns(st)
        finalParams ==
            IF runs
            THEN [i \in 1..Len(st.out) |-> SecondPassParam(st.out[i], st.variables)]
            ELSE st.out
        weightWrapped ==
            runs /\ \E i \in 1..Len(st.out) : SecondPassWraps(st.out[i], st.variables)
        hasWeightParam == \E i \in 1..Len(params) : IsWeight(params[i])
    IN  [params |-> finalParams,
         shouldAddSet |-> ShouldAddSet(st.repsWrapped, weightWrapped, hasWeightParam)]

\* applyProgression on formulas that read nothing but the variables
applyProgression(params) == applyProgressionIn(EmptyVars, params)

----------------------------------------------------------------------------
(* Workouts *)

Exercise(name, state, params, targetDuration, recordedDuration, restAfter) ==
    [name |-> name, state |-> state, params |-> params,
     targetDuration |-> targetDuration, recordedDuration |-> recordedDuration,
     restAfter |-> restAfter]

Metadata(title, state, startDate, duration, restDuration) ==
    [title |-> title, state |-> state, startDate |-> startDate,
     duration |-> duration, restDuration |-> restDuration]

Workout(metadata, exercises) == [metadata |-> metadata, exercises |-> exercises]

\* "lock every parameter (mark non-editable)"
lockAllFields(workout) ==
    [workout EXCEPT !.exercises =
        [i \in 1..Len(@) |->
            [@[i] EXCEPT !.params =
                [j \in 1..Len(@) |-> [@[j] EXCEPT !.editable = FALSE]]]]]

\* !exercise.targetDuration: undefined or 0
NoTargetDuration(exercise) ==
    ~IsDef(exercise.targetDuration) \/ Val(exercise.targetDuration) = 0

RECURSIVE FilterRecorded(_, _)
FilterRecorded(params, exercise) ==
    IF params = << >> THEN << >>
    ELSE LET p == Head(params)
             rest == FilterRecorded(Tail(params), exercise)
         IN  IF IsDuration(p) /\ ~p.editable /\ NoTargetDuration(exercise)
             THEN rest
             ELSE << p >> \o rest

removeRecordedDurations(exercise) == FilterRecorded(exercise.params, exercise)

\* the names of the exercises that ended the session skipped
SkippedExercises(exercises) ==
    {exercises[i].name : i \in {j \in 1..Len(exercises) : exercises[j].state = "skipped"}}

\* progression applied whatever was skipped
ShouldApplyProgressionAlways(name, skippedExercises) == TRUE

ShouldApplyProgression(name, skippedExercises) == name \notin skippedExercises

ProgressionResult(exercise, skippedExercises) ==
    LET filteredParams == removeRecordedDurations(exercise)
    IN  IF ShouldApplyProgression(exercise.name, skippedExercises)
        THEN applyProgression(filteredParams)
        ELSE [params |-> filteredParams, shouldAddSet |-> FALSE]

\* the exercise as resetWorkout's map returns it
ResetExercise(exercise, result) ==
    [exercise EXCEPT
        !.state = "pending",
        !.recordedDuration = Undef,
        !.params =
            [j \in 1..Len(result.params) |->
                [result.params[j] EXCEPT
                    !.editable = @ \/ (IsDuration(result.params[j])
                                        /\ IsDef(exercise.targetDuration))]]]

\* setAdditionNeeded: the names that signalled, each with the last index
\* that set it
SetAdditionNames(exercises, results) ==
    {exercises[i].name : i \in {j \in 1..Len(exercises) : results[j].shouldAddSet}}

SetAdditionIndex(exercises, results, name) ==
    LET I == {i \in 1..Len(exercises) :
                 exercises[i].name = name /\ results[i].shouldAddSet}
    IN  CHOOSE i \in I : \A j \in I : j <= i

\* the reset with the reps branch left out
resetParamForNewSetWeightOnly(param) ==
    IF IsWeight(param)
    THEN IF IsDef(param.initialValue)
         THEN [param EXCEPT !.value = Val(param.initialValue)]
         ELSE IF IsDef(param.maxValue) /\ param.value > Val(param.maxValue)
              THEN [param EXCEPT !.value = Val(param.maxValue)]
              ELSE param
    ELSE param

resetParamForNewSet(param) ==
    IF IsReps(param) /\ IsDef(param.initialValue) /\ IsDef(param.maxValue)
    THEN [param EXCEPT !.value = Val(param.initialValue)]
    ELSE IF IsWeight(param)
    THEN IF IsDef(param.initialValue)
         THEN [param EXCEPT !.value = Val(param.initialValue)]
         ELSE IF IsDef(param.maxValue) /\ param.value > Val(param.maxValue)
              THEN [param EXCEPT !.value = Val(param.maxValue)]
              ELSE param
    ELSE param

\* the new sets, spliced in from the highest index down
RECURSIVE AddNewSets(_, _)
AddNewSets(exercises, indices) ==
    IF indices = {} THEN exercises
    ELSE LET lastIndex == CHOOSE i \in indices : \A j \in indices : j <= i
             newExercise == [exercises[lastIndex] EXCEPT
                                !.state = "pending", !.recordedDuration = Undef]
         IN  AddNewSets(InsertAt(exercises, lastIndex, newExercise),
                        indices \ {lastIndex})

addNewSetsAndReset(exercises, names, indices) ==
    LET added == AddNewSets(exercises, indices)
    IN  [i \in 1..Len(added) |->
            IF added[i].name \in names
            THEN [added[i] EXCEPT !.params =
                    [j \in 1..Len(@) |-> resetParamForNewSet(@[j])]]
            ELSE added[i]]

resetWorkout(workout) ==
    LET exs == workout.exercises
        skippedExercises == SkippedExercises(exs)
        results == [i \in 1..Len(exs) |-> ProgressionResult(exs[i], skippedExercises)]
        resetExs == [i \in 1..Len(exs) |-> ResetExercise(exs[i], results[i])]
        names == SetAdditionNames(exs, results)
        indices == {SetAdditionIndex(exs, results, n) : n \in names}
    IN  [metadata |-> [workout.metadata EXCEPT
                          !.state = "planned", !.startDate = Undef, !.duration = Undef],
         exercises |-> IF names # {}
                       THEN addNewSetsAndReset(resetExs, names, indices)
                       ELSE resetExs]

----------------------------------------------------------------------------
(* The text of the block *)

\* The line of an exercise: the state character, the name, the segments in
\* param order and the synthesized Rest segment.  A duration is held in
\* seconds on both sides.
serializeExercise(exercise) ==
    [state |-> exercise.state, name |-> exercise.name,
     params |-> exercise.params, restAfter |-> exercise.restAfter]

DurationSegments(params, editable) ==
    {j \in 1..Len(params) : IsDuration(params[j]) /\ params[j].editable = editable}

LastOf(S) == CHOOSE i \in S : \A j \in S : j <= i

\* an editable Duration segment is the countdown target, a locked one the
\* recorded time
parseExercise(line) ==
    LET targets == DurationSegments(line.params, TRUE)
        records == DurationSegments(line.params, FALSE)
    IN  Exercise(line.name, line.state, line.params,
            IF targets = {} THEN Undef ELSE Some(line.params[LastOf(targets)].value),
            IF records = {} THEN Undef ELSE Some(line.params[LastOf(records)].value),
            line.restAfter)

serializeWorkout(workout) ==
    [metadata |-> workout.metadata,
     lines |-> [i \in 1..Len(workout.exercises) |-> serializeExercise(workout.exercises[i])]]

parseWorkout(text) ==
    [metadata |-> text.metadata,
     exercises |-> [i \in 1..Len(text.lines) |-> parseExercise(text.lines[i])]]

----------------------------------------------------------------------------
(* The workout id *)

\* charCodeAt of the characters of a title or a name
CharCodes(str) ==
    CASE str = "A" -> << 65 >>
      [] str = "B" -> << 66 >>
      [] str = "T" -> << 84 >>
      [] OTHER -> << 63 >>

RECURSIVE JoinNames(_)
JoinNames(exercises) ==
    IF exercises = << >> THEN << >>
    ELSE IF Len(exercises) = 1 THEN CharCodes(exercises[1].name)
    ELSE CharCodes(exercises[1].name) \o << 44 >> \o JoinNames(Tail(exercises))

\* title + ':' + names.join(',')
Identifier(parsed) ==
    CharCodes(parsed.metadata.title) \o << 58 >> \o JoinNames(parsed.exercises)

\* hash = ((hash << 5) - hash) + char; hash = hash & hash, on a 32-bit
\* integer held as two 16-bit halves << high, low >>
HashStep(hash, char) ==
    LET low == 31 * hash[2] + char
        high == 31 * hash[1] + (low \div 65536)
    IN  << high % 65536, low % 65536 >>

RECURSIVE HashCodes(_, _)
HashCodes(codes, hash) ==
    IF codes = << >> THEN hash
    ELSE HashCodes(Tail(codes), HashStep(hash, Head(codes)))

\* Math.abs of the 32-bit two's complement value
AbsInt32(hash) ==
    IF hash[1] >= 32768
    THEN << (65535 - hash[1] + (IF hash[2] = 0 THEN 1 ELSE 0)) % 65536,
            (65536 - hash[2]) % 65536 >>
    ELSE hash

getWorkoutHash(parsed) == AbsInt32(HashCodes(Identifier(parsed), << 0, 0 >>))

----------------------------------------------------------------------------
(* Workout edits of the serializer *)

updateExerciseState(parsed, index, state) ==
    IF index \in 1..Len(parsed.exercises)
    THEN [parsed EXCEPT !.exercises[index].state = state]
    ELSE parsed

RECURSIVE ReplaceDuration(_, _)
ReplaceDuration(params, duration) ==
    IF params = << >> THEN << >>
    ELSE IF IsDuration(Head(params))
         THEN << [Head(params) EXCEPT !.value = duration, !.editable = FALSE] >>
                  \o Tail(params)
         ELSE << Head(params) >> \o ReplaceDuration(Tail(params), duration)

\* the recorded time: the exercise's recordedDuration and its locked
\* Duration parameter
setRecordedDuration(parsed, index, duration) ==
    IF index \notin 1..Len(parsed.exercises) THEN parsed
    ELSE LET ps == parsed.exercises[index].params
         IN  [parsed EXCEPT
                !.exercises[index].recordedDuration = Some(duration),
                !.exercises[index].params =
                    IF \E j \in 1..Len(ps) : IsDuration(ps[j])
                    THEN ReplaceDuration(ps, duration)
                    ELSE Append(ps, Param("Duration", duration, FALSE, NoFormula, Undef, Undef))]

\* a pending clone of the exercise, inserted directly after it
addSet(parsed, index) ==
    IF index \notin 1..Len(parsed.exercises) THEN parsed
    ELSE [parsed EXCEPT !.exercises =
            InsertAt(@, index, [@[index] EXCEPT !.state = "pending"])]

\* findIndex: the first index satisfying the test, 0 for none
FirstPending(exercises) ==
    LET I == {i \in 1..Len(exercises) : exercises[i].state = "pending"}
    IN  IF I = {} THEN 0 ELSE CHOOSE i \in I : \A j \in I : i <= j

NextPending(exercises, exerciseIndex) ==
    LET I == {i \in 1..Len(exercises) : i > exerciseIndex /\ exercises[i].state = "pending"}
    IN  IF I = {} THEN 0 ELSE CHOOSE i \in I : \A j \in I : i <= j

ActiveIndex(exercises) ==
    LET I == {i \in 1..Len(exercises) : exercises[i].state = "inProgress"}
    IN  IF I = {} THEN 0 ELSE CHOOSE i \in I : \A j \in I : i <= j

----------------------------------------------------------------------------
(* TimerManager *)

NoTimers == [id \in {} |-> 0]

isTimerRunning(t, id) == id \in DOMAIN t

getTimerState(t, id) == IF id \in DOMAIN t THEN Some(t[id]) ELSE Undef

SetTimer(t, id, state) ==
    [k \in DOMAIN t \cup {id} |-> IF k = id THEN state ELSE t[k]]

startWorkoutTimer(t, id, index) ==
    SetTimer(t, id, [workoutElapsed |-> 0, exerciseElapsed |-> 0,
                     activeExerciseIndex |-> index, resting |-> FALSE])

stopWorkoutTimer(t, id) == [k \in DOMAIN t \ {id} |-> t[k]]

setActiveExerciseIndex(t, id, index) ==
    IF id \in DOMAIN t THEN [t EXCEPT ![id].activeExerciseIndex = index] ELSE t

advanceExercise(t, id, index) ==
    IF id \in DOMAIN t
    THEN [t EXCEPT ![id].activeExerciseIndex = index, ![id].exerciseElapsed = 0]
    ELSE t

startRest(t, id) ==
    IF id \in DOMAIN t THEN [t EXCEPT ![id].resting = TRUE] ELSE t

endRest(t, id) ==
    IF id \in DOMAIN t THEN [t EXCEPT ![id].resting = FALSE] ELSE t

----------------------------------------------------------------------------
(* The closures of createCallbacks *)

\* rendered blocks whose callbacks can still run
MaxClosures == 2

Slots == 1..MaxClosures

EmptyWorkout == Workout(Metadata("T", "planned", Undef, Undef, Undef), << >>)

\* a block that was replaced by a re-render and has no callback suspended
DeadClosure ==
    [alive |-> FALSE, source |-> serializeWorkout(EmptyWorkout),
     parsed |-> EmptyWorkout, workoutId |-> << 0, 0 >>, sectionInfo |-> FALSE,
     hasPendingChanges |-> FALSE]

\* no session: the state the pure functions are applied in
SessionIdle ==
    /\ file = serializeWorkout(EmptyWorkout)
    /\ closures = [c \in Slots |-> DeadClosure]
    /\ live = 1
    /\ timers = NoTimers
    /\ logQueue = << >>
    /\ writeQueue = << >>
    /\ sectionAvail = TRUE
    /\ logged = << >>
    /\ sessionId = Undef
    /\ scripted = TRUE
    /\ sessions = 0

----------------------------------------------------------------------------
(* FileUpdater *)

\* concurrent callers of updateCodeBlock
MaxCallers == 3

Callers == 1..MaxCallers

NoCall ==
    [pc |-> "idle", sectionInfo |-> Undef, newContent |-> << >>,
     expectedTitle |-> "", fetchedBy |-> "", result |-> FALSE,
     missing |-> FALSE, stale |-> FALSE, mismatch |-> FALSE, changed |-> FALSE]

\* no note and no call: the state the other functions are applied in
UpdaterIdle ==
    /\ vault = [present |-> FALSE, lines |-> << >>]
    /\ calls = [p \in Callers |-> NoCall]
    /\ updateLocks = 0
    /\ waiters = << >>
    /\ microtasks = << >>

----------------------------------------------------------------------------
(* Inputs of the pure functions *)

\* parameter values are the multiples of 0.5 from 1 up to MaxValueStep / 2
MaxValueStep == 4
ParamValues == {50 * k : k \in 2..MaxValueStep}

Opt(S) == {Undef} \cup {Some(x) : x \in S}

\* Reps: [(r+1){1,2}v] and its variants without formula or bounds
RepsPool ==
    {Param("Reps", v, TRUE, f, i, m) :
        v \in ParamValues, f \in {NoFormula, Add("r", 100)},
        i \in Opt({100}), m \in Opt({200})}

\* Weight: [(w+1){1,2}v], [(w+r){1,2}v], and variants
WeightPool ==
    {Param("Weight", v, TRUE, f, i, m) :
        v \in ParamValues, f \in {NoFormula, Add("w", 100), AddVar("w", "r")},
        i \in Opt({100}), m \in Opt({200})}

\* a user-defined bounded parameter, Sets: [(s+0.5){1,2}v]
SetsPool ==
    {Param("Sets", v, TRUE, Add("s", 50), Some(100), m) :
        v \in ParamValues, m \in Opt({200})}

OptSeq(S) == {<< >>} \cup {<< x >> : x \in S}

\* the parameter lists of one exercise line: an optional user-defined
\* parameter, then Reps and Weight in either order
ParamLists ==
    {s \o r \o w : s \in OptSeq(SetsPool), r \in OptSeq(RepsPool), w \in OptSeq(WeightPool)}
    \cup
    {w \o r \o s : s \in OptSeq(SetsPool), r \in OptSeq(RepsPool), w \in OptSeq(WeightPool)}

----------------------------------------------------------------------------
(* applyProgression applied to every parameter list *)

ProgInit ==
    /\ fnIn \in ParamLists
    /\ fnOut = << >>
    /\ fnPc = "in"
    /\ SessionIdle
    /\ UpdaterIdle

ProgApply ==
    /\ fnPc = "in"
    /\ fnOut' = applyProgression(fnIn)
    /\ fnPc' = "out"
    /\ UNCHANGED << fnIn, sessionVars, updaterVars >>

ProgNext == ProgApply

SpecProg == ProgInit /\ [][ProgNext]_vars

----------------------------------------------------------------------------
(* What the progression rules say of a parameter list, read off the input.  *)
(* In ParamLists a Reps or Sets formula names only its own variable, so a   *)
(* pass-1 parameter's outcome is a function of that parameter alone.        *)

OwnStep(p) == p.value + p.formula.k

\* a bounded non-weight parameter that is reset: already at or beyond max
\* and its formula result above max
Pass1Wrapped(p) ==
    /\ ~IsWeight(p) /\ HasFormula(p) /\ HasMax(p)
    /\ OwnStep(p) > Val(p.maxValue)
    /\ p.value >= Val(p.maxValue)

\* a bounded non-weight parameter that is only capped at max
Pass1Capped(p) ==
    /\ ~IsWeight(p) /\ HasFormula(p) /\ HasMax(p)
    /\ OwnStep(p) > Val(p.maxValue)
    /\ p.value < Val(p.maxValue)

AnyPass1Wrapped(params) == \E i \in 1..Len(params) : Pass1Wrapped(params[i])

RepsWrappedIn(params) ==
    \E i \in 1..Len(params) : IsReps(params[i]) /\ Pass1Wrapped(params[i])

\* the value pass 1 leaves a non-weight parameter with
Pass1Value(p) ==
    IF ~(HasFormula(p) /\ HasMax(p)) THEN p.value
    ELSE IF OwnStep(p) <= Val(p.maxValue) THEN OwnStep(p)
    ELSE IF p.value >= Val(p.maxValue)
         THEN (IF IsDef(p.initialValue) THEN Val(p.initialValue) ELSE p.value)
         ELSE Val(p.maxValue)

\* the reps value the weight formula (w+r) sees in pass 2
RepsAfterPass1(params) ==
    LET I == {i \in 1..Len(params) : IsReps(params[i])}
    IN  IF I = {} THEN Undef ELSE Some(Pass1Value(params[CHOOSE i \in I : TRUE]))

\* the weight-keyed parameter is reset in this call
WeightWrappedIn(params) ==
    /\ AnyPass1Wrapped(params)
    /\ \E i \in 1..Len(params) :
          LET p == params[i]
              r == RepsAfterPass1(params)
              result == IF p.formula.op = "add" THEN p.value + p.formula.k
                        ELSE p.value + Val(r)
          IN  /\ IsWeight(p) /\ HasFormula(p) /\ HasMax(p)
              /\ (p.formula.op = "addv" => IsDef(r))
              /\ result > Val(p.maxValue)
              /\ p.value >= Val(p.maxValue)

HasWeightIn(params) == \E i \in 1..Len(params) : IsWeight(params[i])

\* C2: applyProgression returns shouldAddSet = TRUE exactly when the
\* reps-keyed parameter wrapped (current value at or beyond max and formula
\* result above max) and the weight-keyed parameter wrapped in the same call
\* or there is no weight-keyed parameter; a capped parameter never counts.
C2_ShouldAddSetIffBothWrapped ==
    fnPc = "out" =>
        (fnOut.shouldAddSet <=>
            (RepsWrappedIn(fnIn) /\ (WeightWrappedIn(fnIn) \/ ~HasWeightIn(fnIn))))

\* the full double wrap: reps and weight both reset, a set is added
C2_Witness ==
    /\ fnPc = "out"
    /\ fnOut.shouldAddSet
    /\ HasWeightIn(fnIn)
    /\ RepsWrappedIn(fnIn) /\ WeightWrappedIn(fnIn)

\* C3: when no pass-1 parameter wrapped (capped or merely progressed ones
\* included), the weight-keyed parameter and every parameter without a max
\* keep exactly their input value.
C3_NoWrapKeepsConditional ==
    (fnPc = "out" /\ ~AnyPass1Wrapped(fnIn)) =>
        \A i \in 1..Len(fnIn) :
            (IsWeight(fnIn[i]) \/ ~HasMax(fnIn[i])) => fnOut.params[i] = fnIn[i]

\* reps only capped at max, a weight with a formula left alone
C3_Witness ==
    /\ fnPc = "out"
    /\ ~AnyPass1Wrapped(fnIn)
    /\ \E i \in 1..Len(fnIn) : IsReps(fnIn[i]) /\ Pass1Capped(fnIn[i])
    /\ \E i \in 1..Len(fnIn) :
          IsWeight(fnIn[i]) /\ HasFormula(fnIn[i]) /\ fnOut.params[i] = fnIn[i]

----------------------------------------------------------------------------
(* The two passes of applyProgression *)

\* the state pass 1 ends in for the call's input
AfterFirstPass == FirstPass(fnIn, FirstPassInit(fnIn))

\* the value of parameter j after n further sessions
RECURSIVE ValueAfter(_, _, _)
ValueAfter(params, j, n) ==
    IF n = 0 THEN params[j].value
    ELSE ValueAfter(applyProgression(params).params, j, n - 1)

\* C29: in pass 1, a non-weight parameter with a formula and a max whose
\* rounded result exceeds max is reset to initial (or keeps its value when
\* initial is unset) and marked wrapped when its value is at or beyond max,
\* becomes max and is not marked when its value is below max; otherwise it
\* becomes the rounded result.  A parameter reaching max in one session is
\* back at initial after the next.
C29_PassOneWrapCapProgress ==
    fnPc = "out" =>
        \A j \in 1..Len(fnIn) :
            LET p == fnIn[j]
                q == fnOut.params[j]
                result == OwnStep(p)
                marked == p.key \in AfterFirstPass.overflowed
            IN  (~IsWeight(p) /\ HasFormula(p) /\ HasMax(p)) =>
                  /\ (result > Val(p.maxValue) /\ p.value >= Val(p.maxValue)) =>
                        /\ marked
                        /\ IsDef(p.initialValue) => q.value = Val(p.initialValue)
                        /\ ~IsDef(p.initialValue) => q.value = p.value
                  /\ (result > Val(p.maxValue) /\ p.value < Val(p.maxValue)) =>
                        ~marked /\ q.value = Val(p.maxValue)
                  /\ result <= Val(p.maxValue) =>
                        ~marked /\ q.value = result
                  /\ (result = Val(p.maxValue) /\ IsDef(p.initialValue)) =>
                        /\ ValueAfter(fnIn, j, 1) = Val(p.maxValue)
                        /\ ValueAfter(fnIn, j, 2) = Val(p.initialValue)
                  /\ q = [p EXCEPT !.value = q.value]

\* one call with a parameter wrapped without an initial, one capped: Sets at
\* 2 of {1,2} and Reps at 1.5 of {,2}: Sets back to 1, Reps to 2
C29_Witness ==
    /\ fnPc = "out"
    /\ \E j \in 1..Len(fnIn) :
          /\ IsReps(fnIn[j]) /\ Pass1Capped(fnIn[j])
          /\ fnOut.params[j].value = Val(fnIn[j].maxValue)
    /\ \E j \in 1..Len(fnIn) :
          /\ ~IsReps(fnIn[j]) /\ Pass1Wrapped(fnIn[j])
          /\ fnOut.params[j].value = 100 /\ fnIn[j].value = 200
    /\ AfterFirstPass.overflowed = {"Sets"}

\* a parameter pass 2 progresses: one with a formula that is weight-keyed
\* or has no max
Conditional(p) == HasFormula(p) /\ (IsWeight(p) \/ ~HasMax(p))

\* the variable map pass 1 leaves: the value of every parameter, that of a
\* pass-1 parameter as wrapped, capped or progressed
VariablesAfterPassOne(params) ==
    LET I == {i \in 1..Len(params) : ~IsDuration(params[i])}
    IN  [n \in {VarName(params[i].key) : i \in I} |->
            LET i == CHOOSE k \in I : VarName(params[k].key) = n
            IN  IF IsWeight(params[i]) THEN params[i].value
                ELSE Pass1Value(params[i])]

Reversed(params) == [i \in 1..Len(params) |-> params[Len(params) + 1 - i]]

\* the parameters with the formula of every conditional one but j taken out
OnlyConditional(params, j) ==
    [i \in 1..Len(params) |->
        IF i # j /\ Conditional(params[i])
        THEN [params[i] EXCEPT !.formula = NoFormula]
        ELSE params[i]]

\* C30: in pass 2 each conditional parameter's new value is its formula over
\* the variable map as pass 1 left it (the reset, capped or progressed values
\* of the pass-1 parameters); pass 2 does not write the map: the result is
\* the same in the reverse order and with the other conditional parameters
\* not progressing.
C30_PassTwoReadsPassOneMap ==
    (fnPc = "out" /\ AnyPass1Wrapped(fnIn)) =>
        LET variables == VariablesAfterPassOne(fnIn)
            n == Len(fnIn)
        IN  /\ AfterFirstPass.variables = variables
            /\ \A j \in 1..n :
                  LET p == fnIn[j]
                      q == fnOut.params[j]
                      e == evaluateProgressionFormula(p.formula, variables)
                      result == RoundedValue(e)
                  IN  Conditional(p) =>
                        /\ (e.ok /\ ~(IsWeight(p) /\ HasMax(p) /\ result > Val(p.maxValue)))
                              => q.value = result
                        /\ (e.ok /\ IsWeight(p) /\ HasMax(p) /\ result > Val(p.maxValue))
                              => q.value = IF p.value < Val(p.maxValue)
                                           THEN Val(p.maxValue)
                                           ELSE IF IsDef(p.initialValue)
                                                THEN Val(p.initialValue) ELSE p.value
                        /\ ~e.ok => q = p
                        /\ applyProgression(Reversed(fnIn)).params[n + 1 - j].value = q.value
                        /\ applyProgression(OnlyConditional(fnIn, j)).params[j].value = q.value

\* Reps reset from 2 to 1 in pass 1, Weight (w+r) grown by the reset value,
\* next to a second conditional parameter, Sets without a max
C30_Witness ==
    /\ fnPc = "out"
    /\ \E j \in 1..Len(fnIn) :
          /\ IsReps(fnIn[j]) /\ Pass1Wrapped(fnIn[j])
          /\ fnIn[j].value = 200 /\ fnOut.params[j].value = 100
    /\ \E j \in 1..Len(fnIn) :
          /\ IsWeight(fnIn[j]) /\ fnIn[j].formula = AddVar("w", "r")
          /\ fnOut.params[j].value = fnIn[j].value + 100
    /\ \E j \in 1..Len(fnIn) :
          /\ ~IsWeight(fnIn[j]) /\ Conditional(fnIn[j])
          /\ fnOut.params[j].value = fnIn[j].value + 50

\* C31: when pass 2 runs, a weight-keyed parameter with a formula and a max
\* takes a rounded result not above max as its value, unwrapped (no set is
\* added); with the result above max it is capped at max, unwrapped, when its
\* value is below max, and reset to initial (its value kept when initial is
\* unset) and marked wrapped when its value is at or beyond max.
C31_WeightCapVersusWrap ==
    (fnPc = "out" /\ AnyPass1Wrapped(fnIn)) =>
        \A j \in 1..Len(fnIn) :
            LET p == fnIn[j]
                q == fnOut.params[j]
                e == evaluateProgressionFormula(p.formula, VariablesAfterPassOne(fnIn))
                result == RoundedValue(e)
                marked == SecondPassWraps(AfterFirstPass.out[j], AfterFirstPass.variables)
            IN  (IsWeight(p) /\ HasFormula(p) /\ HasMax(p) /\ e.ok) =>
                  /\ result <= Val(p.maxValue) =>
                        /\ q.value = result
                        /\ ~marked /\ ~fnOut.shouldAddSet
                  /\ (result > Val(p.maxValue) /\ p.value < Val(p.maxValue)) =>
                        /\ q.value = Val(p.maxValue)
                        /\ ~marked /\ ~fnOut.shouldAddSet
                  /\ (result > Val(p.maxValue) /\ p.value >= Val(p.maxValue)) =>
                        /\ IsDef(p.initialValue) => q.value = Val(p.initialValue)
                        /\ ~IsDef(p.initialValue) => q.value = p.value
                        /\ marked
                        /\ fnOut.shouldAddSet <=> RepsWrappedIn(fnIn)
                  /\ q = [p EXCEPT !.value = q.value]

\* Reps (r+1){1,2}2 wraps to 1 and Weight (w+1){1,2}1.5 is capped at 2: no
\* set is added
C31_Witness ==
    /\ fnPc = "out"
    /\ RepsWrappedIn(fnIn)
    /\ ~fnOut.shouldAddSet
    /\ \E j \in 1..Len(fnIn) :
          /\ IsWeight(fnIn[j]) /\ fnIn[j].formula = Add("w", 100)
          /\ fnIn[j].value = 150 /\ fnIn[j].maxValue = Some(200)
          /\ fnOut.params[j].value = 200

----------------------------------------------------------------------------
(* resetWorkout applied to the workouts a session can end with *)

BoundedReps(v, i, m) == Param("Reps", v, TRUE, Add("r", 100), i, m)
BoundedWeight(v, i, m) == Param("Weight", v, TRUE, Add("w", 100), i, m)

\* the parameter lists of the exercises handed to resetWorkout
ResetParamLists ==
    { << BoundedReps(200, Some(100), Some(200)), BoundedWeight(200, Some(100), Some(200)) >>,
      << BoundedReps(100, Some(100), Some(200)), BoundedWeight(200, Undef, Some(200)) >>,
      << BoundedReps(200, Some(100), Undef) >>,
      << BoundedReps(200, Some(100), Some(200)) >>,
      << BoundedReps(200, Some(100), Some(200)), BoundedWeight(150, Some(100), Some(200)) >>,
      << BoundedReps(200, Some(100), Some(200)), BoundedWeight(250, Undef, Some(200)) >>,
      << BoundedReps(250, Undef, Some(200)) >> }

ExerciseNames == {"A", "B"}

ResetExercises ==
    {Exercise(n, st, ps, Undef, Undef, Undef) :
        n \in ExerciseNames, st \in {"completed", "skipped"}, ps \in ResetParamLists}

\* the number of sets of a workout
MaxSets == 3

SeqsUpTo(S, n) == UNION {[1..k -> S] : k \in 1..n}

ResetInit ==
    /\ fnIn \in {Workout(Metadata("T", "completed", Some(1), Some(0), Undef), exs) :
                    exs \in SeqsUpTo(ResetExercises, MaxSets)}
    /\ fnOut = << >>
    /\ fnPc = "reset_in"
    /\ SessionIdle
    /\ UpdaterIdle

ResetApply ==
    /\ fnPc = "reset_in"
    /\ fnOut' = resetWorkout(lockAllFields(fnIn))
    /\ fnPc' = "reset_out"
    /\ UNCHANGED << fnIn, sessionVars, updaterVars >>

ResetNext == ResetApply

SpecReset == ResetInit /\ [][ResetNext]_vars

----------------------------------------------------------------------------
(* What the reset rules say, read off the workout handed to resetWorkout *)

RECURSIVE NamedSets(_, _)
NamedSets(exercises, name) ==
    IF exercises = << >> THEN << >>
    ELSE IF Head(exercises).name = name
         THEN << Head(exercises) >> \o NamedSets(Tail(exercises), name)
         ELSE NamedSets(Tail(exercises), name)

\* what progression may change of a parameter
Core(p) == [key |-> p.key, value |-> p.value, formula |-> p.formula,
            initialValue |-> p.initialValue, maxValue |-> p.maxValue]

CoreParams(exercise) == [j \in 1..Len(exercise.params) |-> Core(exercise.params[j])]

Keys(exercise) == [j \in 1..Len(exercise.params) |-> exercise.params[j].key]

\* the names of which a set signalled shouldAddSet
SignallingNames(exercises) ==
    {exercises[i].name : i \in {j \in 1..Len(exercises) :
        /\ exercises[j].name \notin SkippedExercises(exercises)
        /\ applyProgression(exercises[j].params).shouldAddSet}}

LastBearing(exercises, name) ==
    CHOOSE i \in 1..Len(exercises) :
        /\ exercises[i].name = name
        /\ \A j \in 1..Len(exercises) : exercises[j].name = name => j <= i

\* C4: at workout reset, no set whose name is the name of a skipped
\* exercise progresses: all sets of that name keep their parameter values,
\* formulas and bounds, and no set of that name is added.
C4_SkippedNamesDoNotProgress ==
    fnPc = "reset_out" =>
        \A n \in SkippedExercises(fnIn.exercises) :
            LET before == NamedSets(fnIn.exercises, n)
                after == NamedSets(fnOut.exercises, n)
            IN  /\ Len(after) = Len(before)
                /\ \A k \in 1..Len(before) : CoreParams(after[k]) = CoreParams(before[k])

\* a completed set that would have wrapped and signalled a new set, left
\* alone because another set of its name was skipped
C4_Witness ==
    /\ fnPc = "reset_out"
    /\ \E i \in 1..Len(fnIn.exercises) :
          LET e == fnIn.exercises[i]
          IN  /\ e.state = "completed"
              /\ e.name \in SkippedExercises(fnIn.exercises)
              /\ applyProgression(e.params).shouldAddSet
              /\ Len(fnOut.exercises) = Len(fnIn.exercises)

\* the positions of the claimed new sets in the result: each directly after
\* the last set bearing a signalling name
ClaimedNewPositions(exercises) ==
    {LastBearing(exercises, n)
        + Cardinality({m \in SignallingNames(exercises) :
                          LastBearing(exercises, m) <= LastBearing(exercises, n)})
     : n \in SignallingNames(exercises)}

RECURSIVE DropPositions(_, _, _)
DropPositions(s, positions, at) ==
    IF s = << >> THEN << >>
    ELSE IF at \in positions
         THEN DropPositions(Tail(s), positions, at + 1)
         ELSE << Head(s) >> \o DropPositions(Tail(s), positions, at + 1)

\* C5 as claimed: one new pending set per signalling name, inserted directly
\* after the last set bearing that name, none for any other name.
C5_NewSetAfterLastOfName ==
    fnPc = "reset_out" =>
        LET in == fnIn.exercises
            out == fnOut.exercises
            new == ClaimedNewPositions(in)
            kept == DropPositions(out, new, 1)
        IN  /\ Len(out) = Len(in) + Cardinality(SignallingNames(in))
            /\ \A q \in new : q <= Len(out) /\ out[q].state = "pending"
                                /\ out[q].name \in SignallingNames(in)
            /\ Len(kept) = Len(in)
            /\ \A i \in 1..Len(in) :
                  i <= Len(kept) =>
                      kept[i].name = in[i].name /\ Keys(kept[i]) = Keys(in[i])

\* the reps and weight of one set after a set addition, as claimed
ResetToInitial(p) ==
    /\ (IsReps(p) /\ IsDef(p.initialValue)) => p.value = Val(p.initialValue)
    /\ IsWeight(p) =>
          IF IsDef(p.initialValue) THEN p.value = Val(p.initialValue)
          ELSE (IsDef(p.maxValue) => p.value <= Val(p.maxValue))

\* the same, of a reps parameter only when it has both bounds
ResetToInitialBounded(p) ==
    /\ (IsReps(p) /\ IsDef(p.initialValue) /\ IsDef(p.maxValue))
          => p.value = Val(p.initialValue)
    /\ IsWeight(p) =>
          IF IsDef(p.initialValue) THEN p.value = Val(p.initialValue)
          ELSE (IsDef(p.maxValue) => p.value <= Val(p.maxValue))

WrapsIn(params, j) ==
    LET st == FirstPass(params, FirstPassInit(params))
    IN  IF IsWeight(params[j])
        THEN SecondPassRuns(st) /\ SecondPassWraps(st.out[j], st.variables)
        ELSE InFirstPass(params[j]) /\ params[j].key \in st.overflowed

\* the sets resetWorkout adds: the last signalling index of each name
AdditionIndices(exercises) ==
    LET skippedExercises == SkippedExercises(exercises)
        results == [i \in 1..Len(exercises) |->
                        ProgressionResult(exercises[i], skippedExercises)]
    IN  {SetAdditionIndex(exercises, results, n) :
            n \in SetAdditionNames(exercises, results)}

\* where the exercise at i stands once the new sets are spliced in
IndexAfterReset(exercises, i) ==
    i + Cardinality({q \in AdditionIndices(exercises) : q < i})

\* C23: after the workout reset, a parameter with a max and no initial that
\* wrapped in the progression of its exercise is not above its max.
C23_WrapWithoutInitialClampsToMax ==
    fnPc = "reset_out" =>
        \A i \in 1..Len(fnIn.exercises) :
            LET e == fnIn.exercises[i]
                after == fnOut.exercises[IndexAfterReset(fnIn.exercises, i)]
            IN  e.name \notin SkippedExercises(fnIn.exercises) =>
                    \A j \in 1..Len(e.params) :
                        (/\ HasMax(e.params[j])
                         /\ ~IsDef(e.params[j].initialValue)
                         /\ WrapsIn(e.params, j))
                            => after.params[j].value <= Val(e.params[j].maxValue)


----------------------------------------------------------------------------
(* The session: rendered blocks, their callbacks, the logger and the writes *)

\* callbacks suspended in the logger or in a write
MaxPending == 2
\* logger calls since the last Start
MaxLogged == 2
\* seconds a timer counts
MaxElapsed == 1
\* sets of a workout beyond which Add set is not pressed
MaxSessionSets == 2
\* Starts
MaxSessions == 1

\* the sets beyond which Add set is not pressed: in the session, and where
\* the button alone is exercised on workouts of up to MaxSets sets
SetsLimit == IF fnPc = "sets" THEN MaxSets + 1 ELSE MaxSessionSets

\* no callback is suspended
Quiet == logQueue = << >> /\ writeQueue = << >>

CanSuspend == Len(logQueue) + Len(writeQueue) < MaxPending

Busy(c, lq) == \E k \in 1..Len(lq) : lq[k].slot = c

\* a replaced block lives on only while one of its callbacks is suspended
Collect(cl, lv, lq) ==
    [c \in Slots |-> IF c = lv \/ Busy(c, lq) THEN cl[c] ELSE DeadClosure]

RemoveAt(q, k) == [j \in 1..(Len(q) - 1) |-> IF j < k THEN q[j] ELSE q[j + 1]]

\* what the block shows: the workout it was rendered from
Rendered(c) == parseWorkout(closures[c].source)

RenderedActive(c) == ActiveIndex(Rendered(c).exercises)

\* the event is applied to the exercise that is active in memory
OnActive(c, index) ==
    /\ closures[c].parsed.metadata.state = "started"
    /\ index = ActiveIndex(closures[c].parsed.exercises)

\* updateFile: the closure's workout and, with a section, a write request;
\* stopAfter is the stopWorkoutTimer that follows the awaited write
UpdateFile(c, newParsed, t, by, stopAfter, lq) ==
    /\ logQueue' = lq
    /\ closures' = Collect([closures EXCEPT ![c].parsed = newParsed,
                                            ![c].hasPendingChanges = FALSE],
                           live, lq)
    /\ IF sectionAvail
       THEN /\ writeQueue' = Append(writeQueue,
                                [content |-> serializeWorkout(newParsed), by |-> by,
                                 slot |-> c, id |-> closures[c].workoutId,
                                 stop |-> stopAfter])
            /\ timers' = t
       ELSE /\ writeQueue' = writeQueue
            /\ timers' = IF stopAfter THEN stopWorkoutTimer(t, closures[c].workoutId)
                         ELSE t
    /\ UNCHANGED << file, live, sectionAvail >>

\* state completed, the duration of a running timer, every field locked
CompleteWorkout(parsed, t, id) ==
    LET finalState == getTimerState(t, id)
        completed == [parsed EXCEPT !.metadata.state = "completed"]
    IN  lockAllFields(
            IF IsDef(finalState)
            THEN [completed EXCEPT
                    !.metadata.duration = Some(Val(finalState).workoutElapsed)]
            ELSE completed)

\* await logger.logWorkout(currentParsed): the callback is suspended
LogWorkout(c, completed, t, stopBefore, pending) ==
    /\ Len(logged) < MaxLogged
    /\ logQueue' = Append(logQueue, [slot |-> c, stopBefore |-> stopBefore])
    /\ logged' = Append(logged, completed)
    /\ closures' = [closures EXCEPT ![c].parsed = completed,
                                    ![c].hasPendingChanges = pending]
    /\ timers' = t
    /\ UNCHANGED << file, live, sectionAvail, writeQueue >>

\* the next pending exercise becomes active with the elapsed time running on
AdvanceOrCompleteKeepsElapsed(c, done, index, t, stopBefore) ==
    LET nextPending == NextPending(done.exercises, index)
        id == closures[c].workoutId
    IN  IF nextPending > 0
        THEN /\ UpdateFile(c, updateExerciseState(done, nextPending, "inProgress"),
                           setActiveExerciseIndex(t, id, nextPending), "flush", FALSE, logQueue)
             /\ UNCHANGED logged
        ELSE LogWorkout(c, CompleteWorkout(done, t, id), t, stopBefore, FALSE)

\* the next pending exercise becomes active, or the workout completes
AdvanceOrComplete(c, done, index, t, stopBefore) ==
    LET nextPending == NextPending(done.exercises, index)
        id == closures[c].workoutId
    IN  IF nextPending > 0
        THEN /\ UpdateFile(c, updateExerciseState(done, nextPending, "inProgress"),
                           advanceExercise(t, id, nextPending), "flush", FALSE, logQueue)
             /\ UNCHANGED logged
        ELSE LogWorkout(c, CompleteWorkout(done, t, id), t, stopBefore, FALSE)

RecordDuration(parsed, index, t, id) ==
    LET timerState == getTimerState(t, id)
    IN  IF IsDef(timerState)
        THEN setRecordedDuration(parsed, index, Val(timerState).exerciseElapsed)
        ELSE parsed

\* the exercise's rest unless it is zero: exercise.restAfter || metadata.restDuration
RestDurationOr(exercise, metadata) ==
    IF IsDef(exercise.restAfter) /\ Val(exercise.restAfter) # 0
    THEN exercise.restAfter
    ELSE metadata.restDuration

\* exercise.restAfter ?? metadata.restDuration, and its truthiness
RestDuration(exercise, metadata) ==
    IF IsDef(exercise.restAfter) THEN exercise.restAfter ELSE metadata.restDuration

Truthy(o) == IsDef(o) /\ Val(o) # 0


----------------------------------------------------------------------------
(* The callbacks *)

\* Start with the timer not started before the write is issued
OnStartWorkoutTimerLate ==
    LET cl == closures[live]
        firstPending == FirstPending(cl.parsed.exercises)
        started == [cl.parsed EXCEPT !.metadata.state = "started",
                                     !.metadata.startDate = Some(1)]
        newParsed == IF firstPending > 0
                     THEN [started EXCEPT !.exercises[firstPending].state = "inProgress"]
                     ELSE started
    IN  /\ Rendered(live).metadata.state = "planned"
        /\ ~ \E k \in 1..Len(writeQueue) :
                writeQueue[k].by = "start" /\ writeQueue[k].slot = live
        /\ cl.sectionInfo
        /\ CanSuspend
        /\ sessions < MaxSessions
        /\ scripted' = (scripted /\ cl.parsed.metadata.state = "planned")
        /\ sessionId' = Some(cl.workoutId)
        /\ logged' = << >>
        /\ UpdateFile(live, newParsed,
                      timers,
                      "start", FALSE, logQueue)
        /\ sessions' = sessions + 1
        /\ UNCHANGED fnVars

\* the Start button of a block rendered planned; one click at a time
OnStartWorkout ==
    LET cl == closures[live]
        firstPending == FirstPending(cl.parsed.exercises)
        started == [cl.parsed EXCEPT !.metadata.state = "started",
                                     !.metadata.startDate = Some(1)]
        newParsed == IF firstPending > 0
                     THEN [started EXCEPT !.exercises[firstPending].state = "inProgress"]
                     ELSE started
    IN  /\ Rendered(live).metadata.state = "planned"
        /\ ~ \E k \in 1..Len(writeQueue) :
                writeQueue[k].by = "start" /\ writeQueue[k].slot = live
        /\ cl.sectionInfo
        /\ CanSuspend
        /\ sessions < MaxSessions
        /\ scripted' = (scripted /\ cl.parsed.metadata.state = "planned")
        /\ sessionId' = Some(cl.workoutId)
        /\ logged' = << >>
        /\ UpdateFile(live, newParsed,
                      startWorkoutTimer(timers, cl.workoutId,
                                        IF firstPending > 0 THEN firstPending ELSE 1),
                      "start", FALSE, logQueue)
        /\ sessions' = sessions + 1
        /\ UNCHANGED fnVars

OnFinishWorkout ==
    LET cl == closures[live]
    IN  /\ Rendered(live).metadata.state = "started"
        /\ CanSuspend
        /\ LogWorkout(live, CompleteWorkout(cl.parsed, timers, cl.workoutId),
                      timers, FALSE, cl.hasPendingChanges)
        /\ UNCHANGED << sessionId, scripted, sessions, fnVars >>

OnExerciseFinish ==
    LET cl == closures[live]
        id == cl.workoutId
        exerciseIndex == RenderedActive(live)
        recorded == RecordDuration(cl.parsed, exerciseIndex, timers, id)
        restDuration == RestDuration(cl.parsed.exercises[exerciseIndex], recorded.metadata)
        hasMoreExercises == NextPending(recorded.exercises, exerciseIndex) > 0
    IN  /\ Rendered(live).metadata.state = "started"
        /\ exerciseIndex \in 1..Len(cl.parsed.exercises)
        /\ CanSuspend
        /\ scripted' = (scripted /\ OnActive(live, exerciseIndex))
        /\ IF Truthy(restDuration) /\ hasMoreExercises
           THEN /\ UpdateFile(live, recorded, startRest(timers, id), "flush", FALSE, logQueue)
                /\ UNCHANGED logged
           ELSE AdvanceOrComplete(live,
                    updateExerciseState(recorded, exerciseIndex, "completed"),
                    exerciseIndex, timers, FALSE)
        /\ UNCHANGED << sessionId, sessions, fnVars >>

\* the current set is left in progress beside its clone
AddSetKeepsCurrent(recorded, exerciseIndex) ==
    updateExerciseState(addSet(recorded, exerciseIndex), exerciseIndex + 1, "inProgress")

AddSetResult(recorded, exerciseIndex) ==
    updateExerciseState(
        addSet(updateExerciseState(recorded, exerciseIndex, "completed"), exerciseIndex),
        exerciseIndex + 1, "inProgress")

\* Add set that leaves the timer on the finished set
OnExerciseAddSetTimerStays ==
    LET cl == closures[live]
        id == cl.workoutId
        exerciseIndex == RenderedActive(live)
        recorded == RecordDuration(cl.parsed, exerciseIndex, timers, id)
    IN  /\ Rendered(live).metadata.state = "started"
        /\ exerciseIndex \in 1..Len(cl.parsed.exercises)
        /\ Len(cl.parsed.exercises) < SetsLimit
        /\ CanSuspend
        /\ scripted' = (scripted /\ OnActive(live, exerciseIndex))
        /\ UpdateFile(live, AddSetResult(recorded, exerciseIndex),
                      timers, "flush", FALSE, logQueue)
        /\ UNCHANGED << logged, sessionId, sessions, fnVars >>

OnExerciseAddSet ==
    LET cl == closures[live]
        id == cl.workoutId
        exerciseIndex == RenderedActive(live)
        recorded == RecordDuration(cl.parsed, exerciseIndex, timers, id)
    IN  /\ Rendered(live).metadata.state = "started"
        /\ exerciseIndex \in 1..Len(cl.parsed.exercises)
        /\ Len(cl.parsed.exercises) < SetsLimit
        /\ CanSuspend
        /\ scripted' = (scripted /\ OnActive(live, exerciseIndex))
        /\ UpdateFile(live, AddSetResult(recorded, exerciseIndex),
                      advanceExercise(timers, id, exerciseIndex + 1),
                      "flush", FALSE, logQueue)
        /\ UNCHANGED << logged, sessionId, sessions, fnVars >>

\* Skip that rests as Finish exercise does when a rest applies
OnExerciseSkipRests ==
    LET cl == closures[live]
        id == cl.workoutId
        exerciseIndex == RenderedActive(live)
        skipped == updateExerciseState(cl.parsed, exerciseIndex, "skipped")
    IN  /\ Rendered(live).metadata.state = "started"
        /\ exerciseIndex \in 1..Len(cl.parsed.exercises)
        /\ CanSuspend
        /\ scripted' = (scripted /\ OnActive(live, exerciseIndex))
        /\ IF Truthy(RestDuration(cl.parsed.exercises[exerciseIndex], cl.parsed.metadata))
              /\ NextPending(cl.parsed.exercises, exerciseIndex) > 0
           THEN /\ UpdateFile(live, skipped, startRest(timers, id), "flush", FALSE, logQueue)
                /\ UNCHANGED logged
           ELSE AdvanceOrComplete(live, skipped, exerciseIndex, timers, TRUE)
        /\ UNCHANGED << sessionId, sessions, fnVars >>

OnExerciseSkip ==
    LET cl == closures[live]
        id == cl.workoutId
        exerciseIndex == RenderedActive(live)
        timerState == getTimerState(timers, id)
        recorded == IF IsDef(timerState) /\ Val(timerState).exerciseElapsed > 0
                    THEN setRecordedDuration(cl.parsed, exerciseIndex,
                                             Val(timerState).exerciseElapsed)
                    ELSE cl.parsed
    IN  /\ Rendered(live).metadata.state = "started"
        /\ exerciseIndex \in 1..Len(cl.parsed.exercises)
        /\ CanSuspend
        /\ scripted' = (scripted /\ OnActive(live, exerciseIndex))
        /\ AdvanceOrComplete(live,
                updateExerciseState(recorded, exerciseIndex, "skipped"),
                exerciseIndex, timers, TRUE)
        /\ UNCHANGED << sessionId, sessions, fnVars >>

\* the rest countdown ran out
OnRestComplete ==
    LET cl == closures[live]
        id == cl.workoutId
        exerciseIndex == RenderedActive(live)
    IN  /\ Rendered(live).metadata.state = "started"
        /\ exerciseIndex \in 1..Len(cl.parsed.exercises)
        /\ isTimerRunning(timers, id) /\ timers[id].resting
        /\ CanSuspend
        /\ scripted' = (scripted /\ OnActive(live, exerciseIndex))
        /\ AdvanceOrComplete(live,
                updateExerciseState(cl.parsed, exerciseIndex, "completed"),
                exerciseIndex, endRest(timers, id), FALSE)
        /\ UNCHANGED << sessionId, sessions, fnVars >>

\* the rest is skipped and the resting exercise is marked skipped with it
OnRestSkipMarksSkipped ==
    LET cl == closures[live]
        id == cl.workoutId
        exerciseIndex == RenderedActive(live)
    IN  /\ Rendered(live).metadata.state = "started"
        /\ exerciseIndex \in 1..Len(cl.parsed.exercises)
        /\ isTimerRunning(timers, id) /\ timers[id].resting
        /\ CanSuspend
        /\ scripted' = (scripted /\ OnActive(live, exerciseIndex))
        /\ AdvanceOrComplete(live,
                updateExerciseState(cl.parsed, exerciseIndex, "skipped"),
                exerciseIndex, endRest(timers, id), FALSE)
        /\ UNCHANGED << sessionId, sessions, fnVars >>

\* the rest is skipped by the user
OnRestSkip ==
    LET cl == closures[live]
        id == cl.workoutId
        exerciseIndex == RenderedActive(live)
    IN  /\ Rendered(live).metadata.state = "started"
        /\ exerciseIndex \in 1..Len(cl.parsed.exercises)
        /\ isTimerRunning(timers, id) /\ timers[id].resting
        /\ CanSuspend
        /\ scripted' = (scripted /\ OnActive(live, exerciseIndex))
        /\ AdvanceOrComplete(live,
                updateExerciseState(cl.parsed, exerciseIndex, "completed"),
                exerciseIndex, endRest(timers, id), FALSE)
        /\ UNCHANGED << sessionId, sessions, fnVars >>


\* the values typed into a parameter field
EditValues == {200}

updateParamValue(parsed, index, key, value) ==
    [parsed EXCEPT !.exercises[index].params =
        [j \in 1..Len(@) |-> IF @[j].key = key THEN [@[j] EXCEPT !.value = value]
                             ELSE @[j]]]

\* the Reps field of the exercise in progress is edited, one edit before
\* each flush and while nothing is suspended; nothing is written yet
OnParamChange ==
    \E newValue \in EditValues :
        LET cl == closures[live]
            exerciseIndex == RenderedActive(live)
            shown == Rendered(live).exercises[exerciseIndex].params
        IN  /\ Quiet /\ ~cl.hasPendingChanges /\ OnActive(live, exerciseIndex)
            /\ exerciseIndex \in 1..Len(cl.parsed.exercises)
            /\ \E j \in 1..Len(shown) : IsReps(shown[j]) /\ shown[j].editable
            /\ \E j \in 1..Len(cl.parsed.exercises[exerciseIndex].params) :
                  LET param == cl.parsed.exercises[exerciseIndex].params[j]
                  IN  IsReps(param) /\ param.value # newValue
            /\ closures' = [closures EXCEPT
                  ![live].parsed = updateParamValue(cl.parsed, exerciseIndex, "Reps", newValue),
                  ![live].hasPendingChanges = TRUE]
            /\ UNCHANGED << file, live, timers, logQueue, writeQueue, sectionAvail,
                            logged, sessionId, scripted, sessions, fnVars >>

OnFlushChanges ==
    /\ closures[live].hasPendingChanges
    /\ CanSuspend
    /\ UpdateFile(live, closures[live].parsed, timers, "flush", FALSE, logQueue)
    /\ UNCHANGED << logged, sessionId, scripted, sessions, fnVars >>

\* the logger returns: reset, flush; the timer is stopped before the flush
\* on the Skip path and after the awaited write on the others
AfterLog ==
    \E k \in 1..Len(logQueue) :
        LET c == logQueue[k].slot
            stopBefore == logQueue[k].stopBefore
        IN  /\ UpdateFile(c, resetWorkout(closures[c].parsed),
                          IF stopBefore THEN stopWorkoutTimer(timers, closures[c].workoutId)
                          ELSE timers,
                          "completion", ~stopBefore, RemoveAt(logQueue, k))
            /\ UNCHANGED << logged, sessionId, scripted, sessions, fnVars >>

\* the timer left as it is, whatever the text says
SyncTimerKeeps(t, id, parsed) == t

\* the timer follows the text: stopped when the workout is not started,
\* moved when another exercise is in progress
SyncTimer(t, id, parsed) ==
    IF isTimerRunning(t, id) /\ parsed.metadata.state # "started"
    THEN stopWorkoutTimer(t, id)
    ELSE IF isTimerRunning(t, id)
              /\ ActiveIndex(parsed.exercises) > 0
              /\ ActiveIndex(parsed.exercises) # t[id].activeExerciseIndex
         THEN setActiveExerciseIndex(t, id, ActiveIndex(parsed.exercises))
         ELSE t

\* the slot of the next rendered block: the replaced block's, unless one of
\* its callbacks is still suspended
FreeSlots ==
    {c \in Slots : IF c = live THEN ~Busy(live, logQueue) ELSE ~closures[c].alive}

NextSlot ==
    IF live \in FreeSlots THEN live
    ELSE CHOOSE c \in FreeSlots : \A d \in FreeSlots : c <= d

\* processWorkoutBlock on the text source: a new closure, the timer synced
Render(source, t) ==
    LET parsed == parseWorkout(source)
        workoutId == getWorkoutHash(parsed)
    IN  /\ FreeSlots # {}
        /\ live' = NextSlot
        /\ closures' = Collect(
              [closures EXCEPT ![NextSlot] =
                 [alive |-> TRUE, source |-> source, parsed |-> parsed,
                  workoutId |-> workoutId, sectionInfo |-> sectionAvail,
                  hasPendingChanges |-> FALSE]],
              NextSlot, logQueue)
        /\ timers' = SyncTimer(t, workoutId, parsed)

\* the oldest write request is carried out and its callback resumes; the
\* changed block is rendered again
ApplyWrite ==
    LET request == Head(writeQueue)
        t == IF request.stop THEN stopWorkoutTimer(timers, request.id) ELSE timers
    IN  /\ writeQueue # << >>
        /\ file' = request.content
        /\ writeQueue' = Tail(writeQueue)
        /\ IF request.content # closures[live].source
           THEN Render(request.content, t)
           ELSE timers' = t /\ UNCHANGED << closures, live >>
        /\ UNCHANGED << logQueue, sectionAvail, logged, sessionId, scripted,
                        sessions, fnVars >>

\* the block is rendered again when the view regains or loses its section
processWorkoutBlock ==
    /\ sectionAvail # closures[live].sectionInfo
    /\ Render(file, timers)
    /\ UNCHANGED << file, logQueue, writeQueue, sectionAvail, logged, sessionId,
                    scripted, sessions, fnVars >>

\* a second passes on every running timer
Tick ==
    /\ \E id \in DOMAIN timers : timers[id].workoutElapsed < MaxElapsed
    /\ timers' = [id \in DOMAIN timers |->
                    [timers[id] EXCEPT
                        !.workoutElapsed = IF @ < MaxElapsed THEN @ + 1 ELSE @,
                        !.exerciseElapsed = IF @ < MaxElapsed THEN @ + 1 ELSE @]]
    /\ UNCHANGED << file, closures, live, logQueue, writeQueue, sectionAvail, logged,
                    sessionId, scripted, sessions, fnVars >>

\* the view loses or regains the section of the block; the user changes
\* the view between sessions, while nothing is suspended
SectionChange ==
    /\ Quiet
    /\ closures[live].parsed.metadata.state = "planned"
    /\ sectionAvail' = ~sectionAvail
    /\ UNCHANGED << file, closures, live, timers, logQueue, writeQueue, logged,
                    sessionId, scripted, sessions, fnVars >>

----------------------------------------------------------------------------
(* The session starts from a planned block: one whose exercises are all    *)
(* pending, or one the user typed with an exercise marked in progress      *)

RepsParam == Param("Reps", 100, TRUE, Add("r", 100), Some(100), Some(200))

WeightParam == Param("Weight", 100, TRUE, Add("w", 100), Some(100), Some(200))

PlannedWorkouts ==
    {Workout(Metadata("T", "planned", Undef, Undef, rest), exs) :
        rest \in {Undef, Some(60)},
        exs \in {<< Exercise("A", "pending", << RepsParam >>, Undef, Undef, Undef) >>,
                 << Exercise("A", "pending", << RepsParam >>, Undef, Undef, Undef),
                    Exercise("B", "pending", << RepsParam, WeightParam >>,
                             Undef, Undef, Undef) >>}}

\* a planned block typed with its first exercise marked [\]
MarkedWorkouts ==
    {Workout(Metadata("T", "planned", Undef, Undef, Undef),
             << Exercise("A", "inProgress", << RepsParam >>, Undef, Undef, Undef),
                Exercise("B", "pending", << RepsParam, WeightParam >>,
                         Undef, Undef, Undef) >>)}

\* a parameter whose formula reads a variable no parameter defines
FailingParam == Param("Sets", 100, TRUE, AddVar("s", "w"), Some(100), Some(200))

\* planned blocks whose first exercise has a Rest segment of its own: one of
\* 30s in a workout without a default rest, one of 0s in a workout with one
RestWorkouts ==
    {Workout(Metadata("T", "planned", Undef, Undef, Undef),
             << Exercise("A", "pending", << FailingParam, RepsParam >>,
                         Undef, Undef, Some(30)),
                Exercise("B", "pending", << RepsParam, WeightParam >>,
                         Undef, Undef, Undef) >>),
     Workout(Metadata("T", "planned", Undef, Undef, Some(60)),
             << Exercise("A", "pending", << RepsParam >>, Undef, Undef, Some(0)),
                Exercise("B", "pending", << RepsParam, WeightParam >>,
                         Undef, Undef, Undef) >>)}

Init ==
    /\ \E workout \in PlannedWorkouts \cup RestWorkouts \cup MarkedWorkouts :
          /\ file = serializeWorkout(workout)
          /\ scripted = (workout \notin MarkedWorkouts)
          /\ closures = [c \in Slots |->
                IF c = 1
                THEN [alive |-> TRUE, source |-> serializeWorkout(workout),
                      parsed |-> parseWorkout(serializeWorkout(workout)),
                      workoutId |-> getWorkoutHash(workout), sectionInfo |-> TRUE,
                      hasPendingChanges |-> FALSE]
                ELSE DeadClosure]
    /\ live = 1
    /\ timers = NoTimers
    /\ logQueue = << >>
    /\ writeQueue = << >>
    /\ sectionAvail = TRUE
    /\ logged = << >>
    /\ sessionId = Undef
    /\ sessions = 0
    /\ fnIn = << >>
    /\ fnOut = << >>
    /\ fnPc = "session"
    /\ UpdaterIdle

Next ==
    \/ OnStartWorkout
    \/ OnFinishWorkout
    \/ OnExerciseFinish
    \/ OnExerciseAddSet
    \/ OnExerciseSkip
    \/ OnRestComplete
    \/ OnRestSkip
    \/ OnParamChange
    \/ OnFlushChanges
    \/ AfterLog
    \/ ApplyWrite
    \/ processWorkoutBlock
    \/ Tick
    \/ SectionChange

Spec == Init /\ [][Next]_vars


----------------------------------------------------------------------------
(* Session claims *)

InState(workout, states) ==
    {i \in 1..Len(workout.exercises) : workout.exercises[i].state \in states}

\* exactly one exercise in progress while the workout is started with
\* exercises remaining, none once all are terminal
OneInProgress(workout) ==
    /\ (workout.metadata.state = "started"
            /\ InState(workout, {"pending", "inProgress"}) # {})
        => Cardinality(InState(workout, {"inProgress"})) = 1
    /\ InState(workout, {"pending", "inProgress"}) = {}
        => InState(workout, {"inProgress"}) = {}

\* C1: from a planned workout whose exercises are all pending, as long as
\* every Start met a planned workout and every Finish exercise, Rest complete,
\* Rest skip, Skip and Add set was applied to the active exercise, each
\* closure's workout and the workout in the block have exactly one exercise
\* in progress while started with exercises remaining, and none in progress
\* when every exercise is completed or skipped.
C1_ExactlyOneInProgress ==
    scripted =>
        /\ \A c \in Slots : closures[c].alive => OneInProgress(closures[c].parsed)
        /\ OneInProgress(parseWorkout(file))
        /\ \A k \in 1..Len(writeQueue) : OneInProgress(parseWorkout(writeQueue[k].content))

\* a started workout after Add set on its active exercise: the finished set
\* and its clone in progress
C1_Witness ==
    /\ scripted
    /\ \E c \in Slots :
          LET workout == closures[c].parsed
          IN  /\ closures[c].alive
              /\ workout.metadata.state = "started"
              /\ Len(workout.exercises) = 2
              /\ workout.exercises[1].name = workout.exercises[2].name
              /\ workout.exercises[1].state = "completed"
              /\ workout.exercises[2].state = "inProgress"

Flushed(workout) ==
    /\ workout.metadata.state = "planned"
    /\ ~IsDef(workout.metadata.startDate)
    /\ ~IsDef(workout.metadata.duration)
    /\ \A i \in 1..Len(workout.exercises) :
          /\ workout.exercises[i].state = "pending"
          /\ ~IsDef(workout.exercises[i].recordedDuration)

\* C7: every workout a completion path flushes is planned, without start
\* date and duration, every exercise pending with no recorded duration; and
\* no write to the block carries the state completed.
C7_CompletedNeverWritten ==
    /\ \A k \in 1..Len(writeQueue) :
          /\ writeQueue[k].by = "completion"
                => Flushed(parseWorkout(writeQueue[k].content))
          /\ writeQueue[k].content.metadata.state # "completed"
    /\ file.metadata.state # "completed"

\* C8: a workout completion is recorded exactly once, whatever callback is
\* invoked while another is suspended: the logger is called at most once for
\* the session a Start began.
C8_RecordedOncePerCompletion == Len(logged) <= 1

Locked(workout) ==
    \A i \in 1..Len(workout.exercises) :
        \A j \in 1..Len(workout.exercises[i].params) :
            ~workout.exercises[i].params[j].editable

\* C9: every workout handed to the logger is completed, has every parameter
\* locked and has its duration.
C9_LoggedWorkoutComplete ==
    \A k \in 1..Len(logged) :
        /\ logged[k].metadata.state = "completed"
        /\ Locked(logged[k])
        /\ IsDef(logged[k].metadata.duration)

\* C10: while the timer that Start started is running, a block rendered from
\* the started workout has the workout id Start used.
C10_IdentityStable ==
    (/\ IsDef(sessionId)
     /\ isTimerRunning(timers, Val(sessionId))
     /\ Rendered(live).metadata.state = "started")
        => closures[live].workoutId = Val(sessionId)


\* a step that renders the block again
Reparsed ==
    \/ ApplyWrite /\ Head(writeQueue).content # closures[live].source
    \/ processWorkoutBlock

\* the timer of the rendered block agrees with its text
TimerFollowsText(cls, lv, t) ==
    LET parsed == cls[lv].parsed
        id == cls[lv].workoutId
    IN  /\ parsed.metadata.state # "started" => ~isTimerRunning(t, id)
        /\ (parsed.metadata.state = "started" /\ isTimerRunning(t, id))
            => \A i \in InState(parsed, {"inProgress"}) :
                  t[id].activeExerciseIndex = i

\* C11 as stated: immediately after every re-parse, no timer runs for the
\* identity of a workout whose text is not started, and the timer of a
\* started workout has as its active index the index of any exercise in
\* progress.
C11_TimerSyncedAfterReparse ==
    [][Reparsed => TimerFollowsText(closures', live', timers')]_vars

\* the timer of the rendered block agrees with the first exercise in progress
TimerFollowsFirst(cls, lv, t) ==
    LET parsed == cls[lv].parsed
        id == cls[lv].workoutId
        active == InState(parsed, {"inProgress"})
    IN  /\ parsed.metadata.state # "started" => ~isTimerRunning(t, id)
        /\ (parsed.metadata.state = "started" /\ isTimerRunning(t, id) /\ active # {})
            => t[id].activeExerciseIndex = First(active)

\* C11 amended: immediately after every re-parse, no timer runs for the
\* identity of a workout whose text is not started, and the timer of a
\* started workout has as its active index the index of the first exercise
\* in progress.
C11_TimerSyncedToFirstInProgress ==
    [][Reparsed => TimerFollowsFirst(closures', live', timers')]_vars

\* the timer Start started was stopped by a re-parse: no completion ran, and
\* the rendered block has the identity Start used
C11_Witness ==
    /\ IsDef(sessionId)
    /\ logged = << >>
    /\ closures[live].workoutId = Val(sessionId)
    /\ closures[live].source = file
    /\ ~isTimerRunning(timers, Val(sessionId))


\* the rendered block holds a mutation that the text lacks and that no
\* suspended callback is about to write
MutationHeld(c) ==
    /\ closures[c].alive
    /\ Quiet
    /\ closures[c].source = file
    /\ serializeWorkout(closures[c].parsed) # file

\* C12: a mutation whose flush failed for want of a section is retained and
\* the next explicit flush writes it: while the rendered block holds an
\* unwritten mutation, onFlushChanges has pending changes to write.
C12_FailedFlushRetried ==
    MutationHeld(live) => closures[live].hasPendingChanges


\* a rest ended and the handler activated the next pending exercise
NextActivatedAfterRest ==
    /\ OnRestComplete
    /\ closures'[live].parsed.metadata.state = "started"

\* C21: in a step where a rest ends and the next exercise becomes inProgress,
\* the exercise-elapsed counter of the workout's timer is zero afterwards;
\* and in no step other than a Start does the workout-elapsed counter of a
\* running timer decrease.
C21_ElapsedAcrossFlow ==
    [][/\ (NextActivatedAfterRest /\ isTimerRunning(timers, closures[live].workoutId))
            => timers'[closures[live].workoutId].exerciseElapsed = 0
       /\ sessions' = sessions
            => \A id \in DOMAIN timers \cap DOMAIN timers' :
                  timers'[id].workoutElapsed >= timers[id].workoutElapsed]_vars

\* the flow Start, Finish exercise with a rest, rest over: the first exercise
\* completed with its time recorded, the second in progress with its elapsed
\* time at zero while the workout's has advanced
C21_Witness ==
    /\ scripted
    /\ IsDef(sessionId) /\ isTimerRunning(timers, Val(sessionId))
    /\ closures[live].workoutId = Val(sessionId)
    /\ LET parsed == closures[live].parsed
           t == timers[Val(sessionId)]
       IN  /\ parsed.metadata.state = "started"
           /\ Truthy(parsed.metadata.restDuration)
           /\ Len(parsed.exercises) = 2
           /\ parsed.exercises[1].state = "completed"
           /\ IsDef(parsed.exercises[1].recordedDuration)
           /\ parsed.exercises[2].state = "inProgress"
           /\ ~t.resting
           /\ t.activeExerciseIndex = 2
           /\ t.exerciseElapsed = 0
           /\ t.workoutElapsed > 0


\* the evaluation of the parameter's formula fails over the variables of its
\* exercise
FormulaFails(p, params) ==
    /\ HasFormula(p)
    /\ ~evaluateProgressionFormula(p.formula, BuildVariables(params, EmptyVars)).ok

\* the workout with every failing formula taken out
StripFailing(workout) ==
    [workout EXCEPT !.exercises =
        [i \in 1..Len(@) |->
            [@[i] EXCEPT !.params =
                [j \in 1..Len(@) |->
                    IF FormulaFails(@[j], workout.exercises[i].params)
                    THEN [@[j] EXCEPT !.formula = NoFormula]
                    ELSE @[j]]]]]

\* the values of the parameters, exercise by exercise
ParamValuesOf(workout) ==
    [i \in 1..Len(workout.exercises) |->
        [j \in 1..Len(workout.exercises[i].params) |->
            workout.exercises[i].params[j].value]]

\* the completion of the workout before resumes with after as the reset
\* workout: the reset happened, every parameter whose formula fails kept its
\* value where no set was added, and every other value is what the reset
\* gives without the failing formulas
ResetDespiteFailure(before, after) ==
    /\ Flushed(after)
    /\ ParamValuesOf(after) = ParamValuesOf(resetWorkout(StripFailing(before)))
    /\ Len(after.exercises) = Len(before.exercises)
        => \A i \in 1..Len(before.exercises) :
              LET params == removeRecordedDurations(before.exercises[i])
              IN  \A j \in 1..Len(params) :
                     FormulaFails(params[j], params)
                        => after.exercises[i].params[j].value = params[j].value

\* C22: a completion hands the completed workout to the logger whatever
\* formula of it fails to evaluate; when the callback resumes from the logger
\* the workout is reset with the failing parameter's value unchanged and the
\* other parameters progressed as without it, and the reset workout is
\* flushed: written when the view has a section.
C22_FailedFormulaNotFatal ==
    [][/\ Len(logQueue') = Len(logQueue) + 1
            => LET c == logQueue'[Len(logQueue')].slot
               IN  /\ closures'[c].parsed.metadata.state = "completed"
                   /\ logged' = Append(logged, closures'[c].parsed)
       /\ \A k \in 1..Len(logQueue) :
             LET c == logQueue[k].slot
                 before == closures[c].parsed
             IN  (logQueue' = RemoveAt(logQueue, k) /\ sectionAvail)
                   => /\ Len(writeQueue') = Len(writeQueue) + 1
                      /\ writeQueue'[Len(writeQueue')].by = "completion"
                      /\ ResetDespiteFailure(before,
                             parseWorkout(writeQueue'[Len(writeQueue')].content))]_vars

\* a completion write of a workout whose first exercise holds the failing
\* parameter: its value kept, the Reps beside it progressed
C22_Witness ==
    /\ logged # << >>
    /\ \E k \in 1..Len(writeQueue) :
          LET line == writeQueue[k].content.lines[1]
          IN  /\ writeQueue[k].by = "completion"
              /\ Len(line.params) = 2
              /\ line.params[1].formula = FailingParam.formula
              /\ line.params[1].value = FailingParam.value
              /\ FormulaFails(line.params[1], line.params)
              /\ IsReps(line.params[2])
              /\ line.params[2].value = RepsParam.value + 100


\* the value, formula and bounds of the non-Duration parameters of an exercise
RECURSIVE FrameParams(_)
FrameParams(params) ==
    IF params = << >> THEN << >>
    ELSE IF IsDuration(Head(params)) THEN FrameParams(Tail(params))
         ELSE << Core(Head(params)) >> \o FrameParams(Tail(params))

FrameOf(workout) ==
    [i \in 1..Len(workout.exercises) |-> FrameParams(workout.exercises[i].params)]

\* a session transition, up to the point where its callback is suspended
SessionTransition ==
    \/ OnStartWorkout
    \/ OnExerciseFinish
    \/ OnRestComplete
    \/ OnRestSkip
    \/ OnExerciseSkip
    \/ OnExerciseAddSet

\* the parameters of the exercises that existed before are those after: of
\* all exercises, or of all but the one inserted at some position
ExistingKept(before, after) ==
    \/ FrameOf(after) = FrameOf(before)
    \/ \E q \in 1..Len(after.exercises) :
          DropPositions(FrameOf(after), {q}, 1) = FrameOf(before)

\* C24: Start, Finish exercise, Rest complete, Rest skip, Skip exercise and
\* Add set leave the value, formula, initial and max of every non-Duration
\* parameter of every existing exercise of the callback's workout unchanged;
\* and the reset that runs the progression engine is applied, when a
\* callback resumes from the logger, to a workout that is completed, so once
\* for each completion.
C24_ProgressionOnlyAtCompletion ==
    [][/\ SessionTransition
            => ExistingKept(closures[live].parsed, closures'[live].parsed)
       /\ \A k \in 1..Len(logQueue) :
            logQueue' = RemoveAt(logQueue, k)
                => closures[logQueue[k].slot].parsed.metadata.state = "completed"]_vars


\* the rest that applies after the exercise, in seconds: its own restAfter
\* if it is set, otherwise the workout's default; 0 when neither is set
ApplicableRest(exercise, metadata) ==
    IF exercise.restAfter # Undef THEN exercise.restAfter[1]
    ELSE IF metadata.restDuration # Undef THEN metadata.restDuration[1]
    ELSE 0

\* the states of the exercises
StatesOf(workout) ==
    [i \in 1..Len(workout.exercises) |-> workout.exercises[i].state]

\* Finish exercise on the exercise at index, from before to after under the
\* timers t and u: either the rest is entered and no state changes, or the
\* exercise is completed and the next pending one activated or the workout
\* completed
FinishRestsOrAdvances(before, after, index, id, t, u) ==
    LET later == {i \in 1..Len(before.exercises) :
                     i > index /\ before.exercises[i].state = "pending"}
        rests == ApplicableRest(before.exercises[index], before.metadata) # 0
                    /\ later # {}
    IN  IF rests
        THEN /\ StatesOf(after) = StatesOf(before)
             /\ after.metadata.state = before.metadata.state
             /\ isTimerRunning(t, id) => isTimerRunning(u, id) /\ u[id].resting
        ELSE /\ after.exercises[index].state = "completed"
             /\ isTimerRunning(t, id) =>
                    isTimerRunning(u, id) /\ u[id].resting = t[id].resting
             /\ IF later # {}
                THEN /\ after.exercises[First(later)].state = "inProgress"
                     /\ after.metadata.state = before.metadata.state
                     /\ \A i \in 1..Len(before.exercises) \ {index, First(later)} :
                           after.exercises[i].state = before.exercises[i].state
                ELSE /\ after.metadata.state = "completed"
                     /\ \A i \in 1..Len(before.exercises) \ {index} :
                           after.exercises[i].state = before.exercises[i].state

\* C25: Finish exercise enters the rest exactly when the applicable rest
\* duration (the exercise's own restAfter if set, otherwise the workout's
\* default) is non-zero and a later pending exercise exists, and then the
\* exercise stays as it is and no other exercise is activated; otherwise the
\* exercise is completed in the same step and the first later pending
\* exercise becomes inProgress, or the workout is completed.  The rest is
\* the resting state of the timer running for the callback's workout id.
C25_RestExactlyWhenApplicable ==
    [][OnExerciseFinish =>
          FinishRestsOrAdvances(closures[live].parsed, closures'[live].parsed,
                                RenderedActive(live), closures[live].workoutId,
                                timers, timers')]_vars

\* resting after the first exercise on the strength of its own Rest segment,
\* the workout having no default rest: the exercise still in progress with
\* its time recorded, the next still pending
C25_Witness ==
    /\ scripted
    /\ IsDef(sessionId) /\ isTimerRunning(timers, Val(sessionId))
    /\ timers[Val(sessionId)].resting
    /\ LET parsed == closures[live].parsed
       IN  /\ ~IsDef(parsed.metadata.restDuration)
           /\ Len(parsed.exercises) = 2
           /\ parsed.exercises[1].restAfter = Some(30)
           /\ parsed.exercises[1].state = "inProgress"
           /\ IsDef(parsed.exercises[1].recordedDuration)
           /\ parsed.exercises[2].state = "pending"


\* the end of a rest on the exercise at index, from before to after under
\* the timers t and u: the timer no longer resting, the exercise completed,
\* the first later pending exercise in progress and the timer's active one,
\* or else the workout completed and handed to the logger
RestEnds(before, after, index, id, t, u) ==
    LET later == {i \in 1..Len(before.exercises) :
                     i > index /\ before.exercises[i].state = "pending"}
    IN  /\ t[id].resting
        /\ isTimerRunning(u, id) /\ ~u[id].resting
        /\ after.exercises[index].state = "completed"
        /\ IF later # {}
           THEN /\ after.exercises[First(later)].state = "inProgress"
                /\ u[id].activeExerciseIndex = First(later)
                /\ after.metadata.state = before.metadata.state
                /\ logged' = logged
           ELSE /\ after.metadata.state = "completed"
                /\ logged' = Append(logged, after)
                /\ Busy(live, logQueue')

\* C26: Rest complete and Rest skip are the same transition: the timer
\* leaves the resting state, the resting exercise becomes completed and the
\* first pending exercise after it inProgress, or, with no later pending
\* exercise, the workout is completed and logged; when the callback of a
\* completion other than Skip resumes from the logger the workout is reset
\* and its timer stopped, once the reset is written or at once when the view
\* has no section.
C26_RestCompleteSameAsRestSkip ==
    [][/\ OnRestComplete <=> OnRestSkip
       /\ (OnRestComplete \/ OnRestSkip)
            => RestEnds(closures[live].parsed, closures'[live].parsed,
                        RenderedActive(live), closures[live].workoutId,
                        timers, timers')
       /\ \A k \in 1..Len(logQueue) :
            (logQueue' = RemoveAt(logQueue, k) /\ ~logQueue[k].stopBefore)
                => IF sectionAvail
                   THEN /\ writeQueue'[Len(writeQueue')].stop
                        /\ writeQueue'[Len(writeQueue')].id
                              = closures[logQueue[k].slot].workoutId
                        /\ Flushed(parseWorkout(writeQueue'[Len(writeQueue')].content))
                   ELSE ~isTimerRunning(timers', closures[logQueue[k].slot].workoutId)
       /\ (ApplyWrite /\ Head(writeQueue).stop)
            => ~isTimerRunning(timers', Head(writeQueue).id)]_vars

\* a rest on the strength of the exercise's own Rest segment is over: the
\* exercise completed, the next in progress and the timer's active one
C26_Witness ==
    /\ scripted
    /\ IsDef(sessionId) /\ isTimerRunning(timers, Val(sessionId))
    /\ ~timers[Val(sessionId)].resting
    /\ timers[Val(sessionId)].activeExerciseIndex = 2
    /\ LET parsed == closures[live].parsed
       IN  /\ parsed.metadata.state = "started"
           /\ Len(parsed.exercises) = 2
           /\ parsed.exercises[1].restAfter = Some(30)
           /\ parsed.exercises[1].state = "completed"
           /\ parsed.exercises[2].state = "inProgress"


\* Skip on the exercise at index, from before to after under the timers t
\* and u: the exercise skipped, no rest entered, the first later pending
\* exercise in progress, or else the workout completed and handed to the
\* logger
SkipAdvances(before, after, index, id, t, u) ==
    LET later == {i \in 1..Len(before.exercises) :
                     i > index /\ before.exercises[i].state = "pending"}
    IN  /\ after.exercises[index].state = "skipped"
        /\ isTimerRunning(t, id) =>
              /\ isTimerRunning(u, id)
              /\ ~t[id].resting => ~u[id].resting
        /\ IF later # {}
           THEN /\ after.exercises[First(later)].state = "inProgress"
                /\ isTimerRunning(t, id) => u[id].activeExerciseIndex = First(later)
                /\ after.metadata.state = before.metadata.state
                /\ logged' = logged
           ELSE /\ after.metadata.state = "completed"
                /\ logged' = Append(logged, after)
                /\ Busy(live, logQueue')

\* C27: Skip exercise marks the exercise skipped and does not enter the
\* resting state, whatever rest duration applies: in the same step the first
\* later pending exercise becomes inProgress, or, when there is none, the
\* workout is completed.
C27_SkipNeverRests ==
    [][OnExerciseSkip =>
          SkipAdvances(closures[live].parsed, closures'[live].parsed,
                       RenderedActive(live), closures[live].workoutId,
                       timers, timers')]_vars

\* the first exercise of a workout with a default rest was skipped: the
\* next is in progress and the timer is not resting
C27_Witness ==
    /\ scripted
    /\ IsDef(sessionId) /\ isTimerRunning(timers, Val(sessionId))
    /\ ~timers[Val(sessionId)].resting
    /\ timers[Val(sessionId)].activeExerciseIndex = 2
    /\ LET parsed == closures[live].parsed
       IN  /\ parsed.metadata.state = "started"
           /\ ApplicableRest(parsed.exercises[1], parsed.metadata) # 0
           /\ Len(parsed.exercises) = 2
           /\ parsed.exercises[1].state = "skipped"
           /\ parsed.exercises[2].state = "inProgress"


----------------------------------------------------------------------------
(* The Add set button on started workouts of up to MaxSets sets: the states *)
(* a session is in once Start is written, one exercise in progress, those   *)
(* before it completed or skipped, those after it pending                   *)

StartedLists ==
    {exs \in SeqsUpTo({Exercise(n, st, << RepsParam >>, Undef, Undef, Undef) :
                          n \in ExerciseNames,
                          st \in {"pending", "inProgress", "completed", "skipped"}},
                      MaxSets) :
        \E q \in 1..Len(exs) :
            /\ exs[q].state = "inProgress"
            /\ \A i \in 1..Len(exs) :
                  /\ i < q => exs[i].state \in {"completed", "skipped"}
                  /\ i > q => exs[i].state = "pending"}

SetsInit ==
    /\ \E exs \in StartedLists :
          LET workout == Workout(Metadata("T", "started", Some(1), Undef, Undef), exs)
              id == getWorkoutHash(workout)
          IN  /\ file = serializeWorkout(workout)
              /\ closures = [c \in Slots |->
                    IF c = 1
                    THEN [alive |-> TRUE, source |-> serializeWorkout(workout),
                          parsed |-> parseWorkout(serializeWorkout(workout)),
                          workoutId |-> id, sectionInfo |-> TRUE,
                          hasPendingChanges |-> FALSE]
                    ELSE DeadClosure]
              /\ timers = startWorkoutTimer(NoTimers, id, ActiveIndex(exs))
              /\ sessionId = Some(id)
    /\ live = 1
    /\ logQueue = << >>
    /\ writeQueue = << >>
    /\ sectionAvail = TRUE
    /\ logged = << >>
    /\ scripted = TRUE
    /\ sessions = 1
    /\ fnIn = << >>
    /\ fnOut = << >>
    /\ fnPc = "sets"
    /\ UpdaterIdle

SetsNext ==
    \/ OnExerciseAddSet
    \/ ApplyWrite
    \/ Tick

SpecSets == SetsInit /\ [][SetsNext]_vars

\* Add set on the exercise at index, from before to after under the timers
\* t and u
AddSetInserts(before, after, index, id, t, u) ==
    /\ Len(after.exercises) = Len(before.exercises) + 1
    /\ after.exercises[index].state = "completed"
    /\ after.exercises[index].name = before.exercises[index].name
    /\ after.exercises[index + 1].state = "inProgress"
    /\ after.exercises[index + 1].name = before.exercises[index].name
    /\ after.exercises[index + 1].params = after.exercises[index].params
    /\ FrameParams(after.exercises[index + 1].params)
          = FrameParams(before.exercises[index].params)
    /\ \A i \in 1..Len(before.exercises) :
          /\ i < index => after.exercises[i] = before.exercises[i]
          /\ i > index => after.exercises[i + 1] = before.exercises[i]
    /\ InState(before, {"inProgress"}) = {index}
          => InState(after, {"inProgress"}) = {index + 1}
    /\ isTimerRunning(t, id)
          => isTimerRunning(u, id) /\ u[id].activeExerciseIndex = index + 1

----------------------------------------------------------------------------
(* FileUpdater.updateCodeBlock and its per-path lock *)

\* the line that opens a workout block and the line that closes it (three
\* backquotes, written <fence> here)
FenceOpen == "<fence>workout"
FenceClose == "<fence>"

\* lines[i] of the code, i counted from 0; << >> past the end
LineAt(lines, i) == IF i + 1 \in 1..Len(lines) THEN Some(lines[i + 1]) ELSE Undef

\* lines.slice(from, to) of the code, indices counted from 0
Slice(lines, from, to) ==
    LET a == IF from < Len(lines) THEN from ELSE Len(lines)
        b == IF to < Len(lines) THEN to ELSE Len(lines)
    IN  IF b <= a THEN << >> ELSE SubSeq(lines, a + 1, b)

IsTitleLine(l) == l \in {"title: T", "title: U"}

TitleOf(l) == IF l = "title: T" THEN "T" ELSE "U"

\* blockContent.match(/^title:\s*(.+)$/m): the first title line of the range
ActualTitle(lines, sectionInfo) ==
    LET block == Slice(lines, sectionInfo.lineStart + 1, sectionInfo.lineEnd)
        hits == { k \in 1..Len(block) : IsTitleLine(block[k]) }
    IN  IF hits = {} THEN Undef
        ELSE Some(TitleOf(block[CHOOSE k \in hits : \A j \in hits : k <= j]))

\* the validation of the callback handed to vault.process
Validates(lines, sectionInfo, expectedTitle) ==
    LET startLine == LineAt(lines, sectionInfo.lineStart)
        actual == ActualTitle(lines, sectionInfo)
    IN  /\ IsDef(startLine)
        /\ Val(startLine) = FenceOpen
        /\ ~ (expectedTitle # "" /\ IsDef(actual) /\ Val(actual) # expectedTitle)

\* the lines the callback returns when the validation passes
Replaced(lines, sectionInfo, newContent) ==
    Slice(lines, 0, sectionInfo.lineStart + 1) \o newContent
        \o Slice(lines, sectionInfo.lineEnd, Len(lines))

\* ctx.getSectionInfo(el): the fences of the workout block in the document
getSectionInfo(lines) ==
    LET opens == { i \in 1..Len(lines) : lines[i] = FenceOpen }
        open == CHOOSE i \in opens : \A j \in opens : i <= j
        closes == { i \in 1..Len(lines) : i > open /\ lines[i] = FenceClose }
    IN  IF opens = {} \/ closes = {} THEN Undef
        ELSE Some([lineStart |-> open - 1,
                   lineEnd |-> (CHOOSE i \in closes : \A j \in closes : i <= j) - 1])

\* the contents a caller sends: one, two or no exercise line under the title
NewContents ==
    { << "title: T", "- [ ] A" >>,
      << "title: T", "- [ ] A", "- [ ] B" >>,
      << "title: T" >> }

Titles == {"T", "U"}

\* the positions a caller can hold: those of any document the block has had
Positions ==
    { Some([lineStart |-> 1, lineEnd |-> e]) : e \in 3..5 }

InFlight(p) == calls[p].pc \in {"awaitLock", "inSection", "processed"}

\* the event loop runs the resumed continuations before any other task
Settled == microtasks = << >>

\* withLock up to fn(): take the lock and enter the guarded section
EnterSection(p, c) ==
    /\ updateLocks' = p
    /\ calls' = [calls EXCEPT ![p] = [c EXCEPT !.pc = "inSection"]]

\* updateCodeBlock up to its first await, with the context the caller holds;
\* fetchedBy records which caller obtained that context
updateCodeBlock(p, sectionInfo, newContent, expectedTitle, fetchedBy) ==
    LET c == [NoCall EXCEPT !.sectionInfo = sectionInfo,
                            !.fetchedBy = fetchedBy,
                            !.newContent = newContent,
                            !.expectedTitle = expectedTitle,
                            !.missing = ~ vault.present]
    IN  IF ~ vault.present \/ ~ IsDef(sectionInfo)
        THEN /\ calls' = [calls EXCEPT ![p] = [c EXCEPT !.pc = "done"]]
             /\ UNCHANGED << updateLocks, waiters >>
        ELSE IF updateLocks # 0
        THEN /\ calls' = [calls EXCEPT ![p] = [c EXCEPT !.pc = "awaitLock"]]
             /\ waiters' = Append(waiters, [caller |-> p, lock |-> updateLocks])
             /\ UNCHANGED updateLocks
        ELSE /\ EnterSection(p, c)
             /\ UNCHANGED waiters

\* updateFile of a session callback: fetch the context, then updateCodeBlock
CallUpdateFile(p) ==
    /\ Settled
    /\ calls[p].pc = "idle"
    /\ \E newContent \in NewContents :
        LET freshSectionInfo == getSectionInfo(vault.lines)
        IN  /\ IsDef(freshSectionInfo)
            /\ updateCodeBlock(p, freshSectionInfo, newContent, "T", "updateFile")
    /\ UNCHANGED << vault, microtasks, fnIn, fnOut, fnPc, sessionVars >>

\* updateCodeBlock called with whatever context and title the caller holds
CallUpdateCodeBlock(p) ==
    /\ Settled
    /\ calls[p].pc = "idle"
    /\ \E sectionInfo \in Positions \cup {Undef}, expectedTitle \in Titles :
        updateCodeBlock(p, sectionInfo, << "title: T", "- [ ] A" >>,
                        expectedTitle, "caller")
    /\ UNCHANGED << vault, microtasks, fnIn, fnOut, fnPc, sessionVars >>

\* the continuation after "await pending": no second look at the map
Resume(p) ==
    /\ microtasks # << >>
    /\ Head(microtasks) = p
    /\ microtasks' = Tail(microtasks)
    /\ EnterSection(p, calls[p])
    /\ UNCHANGED << vault, waiters, fnIn, fnOut, fnPc, sessionVars >>

\* vault.process runs the callback on the content the note has now
Process(p) ==
    /\ Settled
    /\ calls[p].pc = "inSection"
    /\ LET c == calls[p]
           info == Val(c.sectionInfo)
           ok == Validates(vault.lines, info, c.expectedTitle)
           after == IF ok THEN Replaced(vault.lines, info, c.newContent)
                    ELSE vault.lines
           actual == ActualTitle(vault.lines, info)
       IN  /\ vault' = [vault EXCEPT !.lines = after]
           /\ calls' = [calls EXCEPT ![p] =
                  [c EXCEPT !.pc = "processed", !.result = ok,
                            !.stale = (c.sectionInfo # getSectionInfo(vault.lines)),
                            !.mismatch = (IsDef(actual) /\ Val(actual) # c.expectedTitle),
                            !.changed = (after # vault.lines)]]
    /\ UNCHANGED << updateLocks, waiters, microtasks, fnIn, fnOut, fnPc, sessionVars >>

\* the finally of withLock: resolve the lock, drop it if it is still the stored one
Release(p) ==
    /\ Settled
    /\ calls[p].pc = "processed"
    /\ LET woken == SelectSeq(waiters, LAMBDA w : w.lock = p)
       IN  /\ microtasks' = [k \in 1..Len(woken) |-> woken[k].caller]
           /\ waiters' = SelectSeq(waiters, LAMBDA w : w.lock # p)
    /\ updateLocks' = IF updateLocks = p THEN 0 ELSE updateLocks
    /\ calls' = [calls EXCEPT ![p].pc = "done"]
    /\ UNCHANGED << vault, fnIn, fnOut, fnPc, sessionVars >>

\* the note is deleted while no call is under way
DeleteNote ==
    /\ Settled
    /\ vault.present
    /\ \A p \in Callers : ~ InFlight(p)
    /\ vault' = [vault EXCEPT !.present = FALSE]
    /\ UNCHANGED << calls, updateLocks, waiters, microtasks, fnIn, fnOut, fnPc, sessionVars >>

Notes ==
    { << "# log", FenceOpen, "title: T", "- [ ] A", FenceClose, "done" >>,
      << "# log", FenceOpen, "- [ ] A", FenceClose, "done" >> }

UpdaterInit ==
    /\ vault \in [present : {TRUE}, lines : Notes]
    /\ calls = [p \in Callers |-> NoCall]
    /\ updateLocks = 0
    /\ waiters = << >>
    /\ microtasks = << >>
    /\ fnIn = << >>
    /\ fnOut = << >>
    /\ fnPc = "updater"
    /\ SessionIdle

UpdaterNext ==
    \/ \E p \in Callers : CallUpdateFile(p)
    \/ \E p \in Callers : CallUpdateCodeBlock(p)
    \/ \E p \in Callers : Resume(p)
    \/ \E p \in Callers : Process(p)
    \/ \E p \in Callers : Release(p)
    \/ DeleteNote

SpecUpdater == UpdaterInit /\ [][UpdaterNext]_vars

Returned(p) == calls[p].pc \in {"processed", "done"}

\* C13: a call of updateCodeBlock that finds the file missing, holds no
\* context, holds a context that no longer delimits the block, or finds
\* another title in the targeted block returns false and leaves the content
\* of the note as it was.
C13_FailsClosed ==
    \A p \in Callers :
        (/\ Returned(p)
         /\ \/ calls[p].missing
            \/ ~ IsDef(calls[p].sectionInfo)
            \/ calls[p].stale
            \/ calls[p].mismatch)
        => (~ calls[p].result /\ ~ calls[p].changed)

\* C14: at most one guarded read-modify-write section of the same path is
\* under way at a time, however many calls are concurrent.
C14_OneSectionAtATime ==
    \A p, q \in Callers :
        (calls[p].pc = "inSection" /\ calls[q].pc = "inSection") => p = q

\* C15: a write issued by a session callback is applied with a context that
\* delimits the block in the document as it is when the write is applied:
\* the context was fetched after the writes queued ahead of it completed.
C15_ContextFreshWhenApplied ==
    \A p \in Callers :
        (Returned(p) /\ calls[p].fetchedBy = "updateFile") => ~ calls[p].stale


----------------------------------------------------------------------------
(* parseProgressionValue and formatProgressionValue: texts are sequences of
   characters *)

IsSpace(ch) == ch = " "

\* String.prototype.trim
RECURSIVE TrimStart(_)
TrimStart(s) == IF s # << >> /\ IsSpace(Head(s)) THEN TrimStart(Tail(s)) ELSE s

RECURSIVE TrimEnd(_)
TrimEnd(s) ==
    IF s # << >> /\ IsSpace(s[Len(s)]) THEN TrimEnd(SubSeq(s, 1, Len(s) - 1)) ELSE s

Trim(s) == TrimEnd(TrimStart(s))

\* the positions of character ch in s
IndicesOf(s, ch) == { i \in 1..Len(s) : s[i] = ch }

\* depth after reading s[1..k] in the loop that counts parentheses
Depth(s, k) ==
    Cardinality({ i \in 1..k : s[i] = "(" }) - Cardinality({ i \in 1..k : s[i] = ")" })

\* the positions where the loop finds the closing parenthesis (it stops at the first)
FormulaEnds(s) == { k \in IndicesOf(s, ")") : Depth(s, k) = 0 }

\* x || undefined, for a captured group
OrUndefined(x) == IF x = << >> THEN Undef ELSE Some(x)

ProgressionValue(value, formula, initial, max) ==
    [value |-> value, progressionFormula |-> formula,
     initialValue |-> initial, maxValue |-> max]

\* /^\{([^,]*),([^\}]*)\}(.+)$/ : the three groups, or << >> when there is no match
BoundsMatch(s) ==
    LET commas == IndicesOf(s, ",")
        comma == First(commas)
        closes == { i \in IndicesOf(s, "}") : i > comma }
        close == First(closes)
    IN  IF s = << >> \/ Head(s) # "{" \/ commas = {} THEN Undef
        ELSE IF closes = {} \/ close = Len(s) THEN Undef
        ELSE Some(<< SubSeq(s, 2, comma - 1), SubSeq(s, comma + 1, close - 1),
                     SubSeq(s, close + 1, Len(s)) >>)

parseProgressionValue(valueStr) ==
    LET ends == IF valueStr # << >> /\ Head(valueStr) = "(" THEN FormulaEnds(valueStr) ELSE {}
        formulaEnd == First(ends)
        formula == Trim(SubSeq(valueStr, 2, formulaEnd - 1))
        remainder == SubSeq(valueStr, formulaEnd + 1, Len(valueStr))
        boundsMatch == BoundsMatch(remainder)
        boundsOnlyMatch == BoundsMatch(valueStr)
    IN  IF ends # {}
        THEN IF IsDef(boundsMatch)
             THEN ProgressionValue(Trim(Val(boundsMatch)[3]), Some(formula),
                                   OrUndefined(Trim(Val(boundsMatch)[1])),
                                   OrUndefined(Trim(Val(boundsMatch)[2])))
             ELSE ProgressionValue(Trim(remainder), Some(formula), Undef, Undef)
        ELSE IF IsDef(boundsOnlyMatch)
        THEN ProgressionValue(Trim(Val(boundsOnlyMatch)[3]), Undef,
                              OrUndefined(Trim(Val(boundsOnlyMatch)[1])),
                              OrUndefined(Trim(Val(boundsOnlyMatch)[2])))
        ELSE ProgressionValue(valueStr, Undef, Undef, Undef)

\* x || '' for an optional text
OrEmpty(x) == IF IsDef(x) THEN Val(x) ELSE << >>

\* the bounds written only when both are set
formatProgressionValueBothBounds(value, formula, initialValue, maxValue) ==
    LET bounded == IF IsDef(initialValue) /\ IsDef(maxValue)
                   THEN << "{" >> \o OrEmpty(initialValue) \o << "," >>
                        \o OrEmpty(maxValue) \o << "}" >> \o value
                   ELSE value
    IN  IF IsDef(formula) /\ Val(formula) # << >>
        THEN << "(" >> \o Val(formula) \o << ")" >> \o bounded
        ELSE bounded

formatProgressionValue(value, formula, initialValue, maxValue) ==
    LET bounded == IF IsDef(initialValue) \/ IsDef(maxValue)
                   THEN << "{" >> \o OrEmpty(initialValue) \o << "," >>
                        \o OrEmpty(maxValue) \o << "}" >> \o value
                   ELSE value
    IN  IF IsDef(formula) /\ Val(formula) # << >>
        THEN << "(" >> \o Val(formula) \o << ")" >> \o bounded
        ELSE bounded

FormatParsed(r) ==
    formatProgressionValue(r.value, r.progressionFormula, r.initialValue, r.maxValue)

\* the texts the functions are applied to: every text of up to MaxText
\* characters, and the texts of the grammar (formula){initial,max}value
MaxText == 4

TextChars == {"(", ")", "{", "}", ",", " ", "r", "8"}

RECURSIVE TextsUpTo(_)
TextsUpTo(n) ==
    IF n = 0 THEN { << >> }
    ELSE LET shorter == TextsUpTo(n - 1)
         IN  shorter \cup { Append(t, ch) : t \in { u \in shorter : Len(u) = n - 1 },
                                             ch \in TextChars }

GrammarFormulas ==
    { << "r", "+", "1" >>, << " ", "r", "+", "1", " " >>,
      << "(", "w", "/", "r", ")", "^", "2" >> }

GrammarBounds == { << >>, << " " >>, << "8" >>, << "1", "2" >>, << " ", "8" >> }

GrammarValues == { << "8" >>, << "1", "0" >>, << "8", " " >> }

FormulaParts == { << >> } \cup { << "(" >> \o f \o << ")" >> : f \in GrammarFormulas }

BoundsParts ==
    { << >> } \cup { << "{" >> \o i \o << "," >> \o m \o << "}" >> :
                       i \in GrammarBounds, m \in GrammarBounds }

GrammarTexts == { f \o b \o v : f \in FormulaParts, b \in BoundsParts, v \in GrammarValues }

TextInit ==
    /\ fnIn \in TextsUpTo(MaxText) \cup GrammarTexts
    /\ fnOut = << >>
    /\ fnPc = "text_in"
    /\ SessionIdle
    /\ UpdaterIdle

\* parse the text, format the result, parse the formatted text
TextApply ==
    /\ fnPc = "text_in"
    /\ LET r == parseProgressionValue(fnIn)
       IN  fnOut' = [parsed |-> r, formatted |-> FormatParsed(r),
                     reparsed |-> parseProgressionValue(FormatParsed(r))]
    /\ fnPc' = "text_out"
    /\ UNCHANGED << fnIn, sessionVars, updaterVars >>

TextNext == TextApply

SpecText == TextInit /\ [][TextNext]_vars

\* a text without its whitespace
Unspaced(s) == SelectSeq(s, LAMBDA ch : ~ IsSpace(ch))

BothBoundsEmpty(s) ==
    \E f \in FormulaParts, v \in GrammarValues, i, m \in GrammarBounds :
        /\ s = f \o << "{" >> \o i \o << "," >> \o m \o << "}" >> \o v
        /\ Trim(i) = << >>
        /\ Trim(m) = << >>

\* C16 as stated: formatting the parse of a text of the grammar, bounds
\* possibly both empty, gives the text back up to whitespace.
C16_FormatInvertsParse ==
    (fnPc = "text_out" /\ fnIn \in GrammarTexts)
        => Unspaced(fnOut.formatted) = Unspaced(fnIn)

\* C16 amended: formatting the parse of a text of the grammar gives the text
\* back up to whitespace, provided the braces hold at least one bound.
C16_FormatInvertsParseOneBound ==
    (fnPc = "text_out" /\ fnIn \in GrammarTexts /\ ~ BothBoundsEmpty(fnIn))
        => Unspaced(fnOut.formatted) = Unspaced(fnIn)

C16_Witness ==
    /\ fnPc = "text_out"
    /\ fnIn = << "(", "r", "+", "1", ")", "{", "8", ",", "}", "8" >>
    /\ fnOut.parsed.progressionFormula = Some(<< "r", "+", "1" >>)
    /\ fnOut.parsed.initialValue = Some(<< "8" >>)
    /\ fnOut.parsed.maxValue = Undef

\* C17: parsing the formatted fields of a parse result gives that result
\* back, field for field, absent fields included.
C17_ParseInvertsFormat ==
    fnPc = "text_out" => fnOut.reparsed = fnOut.parsed


----------------------------------------------------------------------------
(* parseDurationToSeconds and formatDurationHuman *)

DigitChars == << "0", "1", "2", "3", "4", "5", "6", "7", "8", "9" >>

IsDigit(ch) == \E d \in 1..10 : DigitChars[d] = ch

DigitValue(ch) == (CHOOSE d \in 1..10 : DigitChars[d] = ch) - 1

\* /\d+/ over the whole text
IsDigits(s) == s # << >> /\ \A i \in 1..Len(s) : IsDigit(s[i])

\* Number.prototype.toString for a non-negative integer
RECURSIVE NumberToString(_)
NumberToString(n) ==
    IF n < 10 THEN << DigitChars[n + 1] >>
    ELSE Append(NumberToString(n \div 10), DigitChars[(n % 10) + 1])

\* parseInt(s, 10) for a text of digits
RECURSIVE parseInt(_)
parseInt(s) ==
    IF s = << >> THEN 0
    ELSE parseInt(SubSeq(s, 1, Len(s) - 1)) * 10 + DigitValue(s[Len(s)])

\* the minutes always dropped
formatDurationHumanSecondsOnly(seconds) ==
    NumberToString(seconds % 60) \o << "s" >>

formatDurationHuman(seconds) ==
    LET mins == seconds \div 60
        secs == seconds % 60
    IN  IF mins = 0 THEN NumberToString(secs) \o << "s" >>
        ELSE IF secs = 0 THEN NumberToString(mins) \o << "m" >>
        ELSE NumberToString(mins) \o << "m", " " >> \o NumberToString(secs) \o << "s" >>

\* /^(\d+)m\s*(\d+)?s?$/ : the two groups (the second << >> when it did not
\* take part), or << >> when there is no match
MinSecMatch(str) ==
    LET ms == IndicesOf(str, "m")
        m == First(ms)
        rest == TrimStart(SubSeq(str, m + 1, Len(str)))
        body == IF rest # << >> /\ rest[Len(rest)] = "s"
                THEN SubSeq(rest, 1, Len(rest) - 1) ELSE rest
    IN  IF ms = {} \/ ~ IsDigits(SubSeq(str, 1, m - 1)) THEN Undef
        ELSE IF body = << >> \/ IsDigits(body)
        THEN Some(<< SubSeq(str, 1, m - 1), body >>)
        ELSE Undef

\* /^(\d+):(\d{2})$/
ColonMatch(str) ==
    LET cs == IndicesOf(str, ":")
        c == First(cs)
    IN  IF cs = {} THEN Undef
        ELSE IF IsDigits(SubSeq(str, 1, c - 1)) /\ Len(str) = c + 2
                /\ IsDigits(SubSeq(str, c + 1, Len(str)))
        THEN Some(<< SubSeq(str, 1, c - 1), SubSeq(str, c + 1, Len(str)) >>)
        ELSE Undef

parseDurationToSeconds(durationStr) ==
    LET str == Trim(durationStr)
        beforeLast == SubSeq(str, 1, Len(str) - 1)
    IN  IF str # << >> /\ str[Len(str)] = "s" /\ IsDigits(beforeLast)
        THEN parseInt(beforeLast)
        ELSE IF IsDef(ColonMatch(str))
        THEN parseInt(Val(ColonMatch(str))[1]) * 60 + parseInt(Val(ColonMatch(str))[2])
        ELSE IF IsDef(MinSecMatch(str))
        THEN parseInt(Val(MinSecMatch(str))[1]) * 60 + parseInt(Val(MinSecMatch(str))[2])
        ELSE IF IsDigits(str) THEN parseInt(str)
        ELSE 0

\* the durations formatted and parsed back: 0 .. MaxSeconds seconds
MaxSeconds == 150

DurationInit ==
    /\ fnIn \in 0..MaxSeconds
    /\ fnOut = << >>
    /\ fnPc = "duration_in"
    /\ SessionIdle
    /\ UpdaterIdle

DurationApply ==
    /\ fnPc = "duration_in"
    /\ fnOut' = [text |-> formatDurationHuman(fnIn),
                 seconds |-> parseDurationToSeconds(formatDurationHuman(fnIn))]
    /\ fnPc' = "duration_out"
    /\ UNCHANGED << fnIn, sessionVars, updaterVars >>

DurationNext == DurationApply

SpecDuration == DurationInit /\ [][DurationNext]_vars

\* C19: parsing the human format of n seconds gives n, for every n >= 0.
C19_ParseInvertsFormatHuman ==
    fnPc = "duration_out" => fnOut.seconds = fnIn

C19_Witness ==
    /\ fnPc = "duration_out"
    /\ fnIn = 90
    /\ fnOut.text = << "1", "m", " ", "3", "0", "s" >>
    /\ fnOut.seconds = 90


----------------------------------------------------------------------------
(* parseExercise and serializeExercise on the text of a line *)

UpperLetters == << "A", "B", "C", "D", "E", "F", "G", "H", "I", "J", "K", "L", "M",
                  "N", "O", "P", "Q", "R", "S", "T", "U", "V", "W", "X", "Y", "Z" >>

LowerLetters == << "a", "b", "c", "d", "e", "f", "g", "h", "i", "j", "k", "l", "m",
                  "n", "o", "p", "q", "r", "s", "t", "u", "v", "w", "x", "y", "z" >>

\* String.prototype.toLowerCase
toLowerCase(s) ==
    [i \in 1..Len(s) |->
        IF \E k \in 1..26 : UpperLetters[k] = s[i]
        THEN LowerLetters[CHOOSE k \in 1..26 : UpperLetters[k] = s[i]]
        ELSE s[i]]

\* s.split(ch)
RECURSIVE SplitOn(_, _)
SplitOn(s, ch) ==
    IF IndicesOf(s, ch) = {} THEN << s >>
    ELSE LET k == First(IndicesOf(s, ch))
         IN  << SubSeq(s, 1, k - 1) >> \o SplitOn(SubSeq(s, k + 1, Len(s)), ch)

\* s.split(/\s+/) for a trimmed text
RECURSIVE SplitOnSpaces(_)
SplitOnSpaces(s) ==
    IF IndicesOf(s, " ") = {} THEN << s >>
    ELSE LET k == First(IndicesOf(s, " "))
         IN  << SubSeq(s, 1, k - 1) >> \o SplitOnSpaces(TrimStart(SubSeq(s, k, Len(s))))

\* parts.join(' ')
RECURSIVE JoinSpaced(_)
JoinSpaced(parts) ==
    IF parts = << >> THEN << >>
    ELSE IF Len(parts) = 1 THEN parts[1]
    ELSE parts[1] \o << " " >> \o JoinSpaced(Tail(parts))

STATE_MAP(stateChar) ==
    CASE stateChar = " " -> "pending"
      [] stateChar = "\\" -> "inProgress"
      [] stateChar = "x" -> "completed"
      [] stateChar = "-" -> "skipped"
      [] OTHER -> "pending"

STATE_CHAR_MAP(state) ==
    CASE state = "pending" -> " "
      [] state = "inProgress" -> "\\"
      [] state = "completed" -> "x"
      [] OTHER -> "-"

ExerciseParam(key, editable, unit, pv) ==
    [key |-> key, value |-> pv.value, editable |-> editable, unit |-> unit,
     progressionFormula |-> pv.progressionFormula,
     initialValue |-> pv.initialValue, maxValue |-> pv.maxValue]

\* parseParam: << >> for null, << param >> otherwise
parseParam(paramStr) ==
    LET colons == IndicesOf(paramStr, ":")
        colonIndex == First(colons)
        key == Trim(SubSeq(paramStr, 1, colonIndex - 1))
        rest == Trim(SubSeq(paramStr, colonIndex + 1, Len(paramStr)))
        closes == IndicesOf(rest, "]")
        close == First(closes)
        bracketed == rest # << >> /\ Head(rest) = "[" /\ closes # {}
        parts == SplitOnSpaces(rest)
    IN  IF colons = {} THEN Undef
        ELSE IF bracketed
        THEN Some(ExerciseParam(key, TRUE,
                                OrUndefined(Trim(SubSeq(rest, close + 1, Len(rest)))),
                                parseProgressionValue(SubSeq(rest, 2, close - 1))))
        ELSE Some(ExerciseParam(key, FALSE, OrUndefined(JoinSpaced(Tail(parts))),
                                parseProgressionValue(parts[1])))

\* /^-\s*\[(.)\]\s*(.+)$/ : << stateChar, rest >> or << >>
ExerciseMatch(line) ==
    LET afterDash == TrimStart(Tail(line))
        remaining == SubSeq(afterDash, 4, Len(afterDash))
    IN  IF line = << >> \/ Head(line) # "-" THEN Undef
        ELSE IF Len(afterDash) < 4 \/ afterDash[1] # "[" \/ afterDash[3] # "]" THEN Undef
        ELSE Some(<< afterDash[2],
                     IF TrimStart(remaining) # << >> THEN TrimStart(remaining)
                     ELSE << " " >> >>)

ParsedParams(paramStrings) ==
    LET all == [i \in 1..Len(paramStrings) |-> parseParam(paramStrings[i])]
        some == SelectSeq(all, IsDef)
    IN  [i \in 1..Len(some) |-> Val(some[i])]

IsRestParam(param) == toLowerCase(param.key) = << "r", "e", "s", "t" >>

IsDurationParam(param) ==
    toLowerCase(param.key) = << "d", "u", "r", "a", "t", "i", "o", "n" >>

\* the last of a set of positions: the assignment of the loop that stays
Last(S) == CHOOSE i \in S : \A j \in S : j <= i

StoresRest(param) == IsRestParam(param) /\ param.editable /\ param.value # << >>

StoresTarget(param) == ~ IsRestParam(param) /\ IsDurationParam(param) /\ param.editable

StoresRecorded(param) == ~ IsRestParam(param) /\ IsDurationParam(param) /\ ~ param.editable

RecordedValue(param) ==
    param.value \o (IF IsDef(param.unit) THEN << " " >> \o Val(param.unit) ELSE << >>)

\* parseExercise on a text: << >> for null, << exercise >> otherwise
parseExerciseText(line) ==
    LET match == ExerciseMatch(line)
        raw == SplitOn(Val(match)[2], "|")
        parts == [i \in 1..Len(raw) |-> Trim(raw[i])]
        parsed == ParsedParams(Tail(parts))
        targets == { i \in 1..Len(parsed) : StoresTarget(parsed[i]) }
        recorded == { i \in 1..Len(parsed) : StoresRecorded(parsed[i]) }
        rests == { i \in 1..Len(parsed) : StoresRest(parsed[i]) }
    IN  IF ~ IsDef(match) THEN Undef
        ELSE Some([state |-> STATE_MAP(Val(match)[1]),
                   name |-> parts[1],
                   params |-> SelectSeq(parsed, LAMBDA q : ~ IsRestParam(q)),
                   targetDuration |->
                       IF targets = {} THEN Undef
                       ELSE Some(parseDurationToSeconds(parsed[Last(targets)].value)),
                   recordedDuration |->
                       IF recorded = {} THEN Undef
                       ELSE Some(RecordedValue(parsed[Last(recorded)])),
                   restAfter |->
                       IF rests = {} THEN Undef
                       ELSE Some(parseDurationToSeconds(parsed[Last(rests)].value))])

SerializedParam(param) ==
    LET formattedValue == FormatParsed([value |-> param.value,
                                        progressionFormula |-> param.progressionFormula,
                                        initialValue |-> param.initialValue,
                                        maxValue |-> param.maxValue])
    IN  << " ", "|", " " >> \o param.key \o << ":", " " >>
        \o (IF param.editable THEN << "[" >> \o formattedValue \o << "]" >>
            ELSE formattedValue)
        \o (IF IsDef(param.unit) THEN << " " >> \o Val(param.unit) ELSE << >>)

RECURSIVE SerializedParams(_)
SerializedParams(params) ==
    IF params = << >> THEN << >>
    ELSE SerializedParam(Head(params)) \o SerializedParams(Tail(params))

\* serializeExercise to a text
serializeExerciseText(exercise) ==
    << "-", " ", "[", STATE_CHAR_MAP(exercise.state), "]", " " >> \o exercise.name
    \o SerializedParams(exercise.params)
    \o (IF IsDef(exercise.restAfter)
        THEN << " ", "|", " ", "R", "e", "s", "t", ":", " ", "[" >>
             \o NumberToString(Val(exercise.restAfter)) \o << "s", "]" >>
        ELSE << >>)

\* the lines parsed: a state character, a name and up to MaxSegments segments
MaxSegments == 2

StateChars == {" ", "\\", "x", "-", "?"}

LineNames == { << "A" >>, << "B", "e", "n", "c", "h", " ", "p", "r", "e", "s", "s" >> }

LineSegments ==
    { << "R", "e", "p", "s", ":", " ", "[", "8", "]" >>,
      << "R", "e", "p", "s", ":", " ", "[", "(", "r", "+", "1", ")", "{", "8", ",", "1", "2", "}", "8", "]" >>,
      << "W", "e", "i", "g", "h", "t", ":", " ", "[", "(", "w", "+", "2", ".", "5", ")", "{", ",", "6", "0", "}", "5", "0", "]", " ", "k", "g" >>,
      << "W", "e", "i", "g", "h", "t", ":", " ", "6", "0", " ", " ", "k", "g" >>,
      << "D", "u", "r", "a", "t", "i", "o", "n", ":", " ", "[", "6", "0", "s", "]" >>,
      << "D", "u", "r", "a", "t", "i", "o", "n", ":", " ", "1", "m", " ", "3", "0", "s" >>,
      << "R", "e", "s", "t", ":", " ", "[", "9", "0", "s", "]" >>,
      << "r", "e", "s", "t", ":", " ", "[", "1", ":", "3", "0", "]" >>,
      << "R", "e", "s", "t", ":", " ", "6", "0", "s" >>,
      << "n", "o", "t", "e" >>,
      << "R", "e", "p", "s", ":", " ", "[", "(", ")", "8", "]" >>,
      << "R", "e", "p", "s", ":", " ", "[", "{", "8", ",", "1", "2", "}", " ", "]" >>,
      << "T", "e", "m", "p", "o", ":" >> }

RECURSIVE SegmentLists(_)
SegmentLists(n) ==
    IF n = 0 THEN { << >> }
    ELSE LET shorter == SegmentLists(n - 1)
         IN  shorter \cup { << " ", "|", " " >> \o seg \o l :
                              seg \in LineSegments, l \in shorter }

Lines ==
    { << "-", " ", "[", ch, "]", " " >> \o name \o segs :
        ch \in StateChars, name \in LineNames, segs \in SegmentLists(MaxSegments) }

LineInit ==
    /\ fnIn \in Lines
    /\ fnOut = << >>
    /\ fnPc = "line_in"
    /\ SessionIdle
    /\ UpdaterIdle

\* parseExercise accepts the line
LineParse ==
    /\ fnPc = "line_in"
    /\ IsDef(parseExerciseText(fnIn))
    /\ fnOut' = [parsed |-> parseExerciseText(fnIn), serialized |-> << >>,
                 reparsed |-> Undef]
    /\ fnPc' = "line_parsed"
    /\ UNCHANGED << fnIn, sessionVars, updaterVars >>

\* serializeExercise on the parsed exercise
LineSerialize ==
    /\ fnPc = "line_parsed"
    /\ fnOut' = [fnOut EXCEPT !.serialized = serializeExerciseText(Val(fnOut.parsed))]
    /\ fnPc' = "line_serialized"
    /\ UNCHANGED << fnIn, sessionVars, updaterVars >>

\* parseExercise on the serialized line
LineReparse ==
    /\ fnPc = "line_serialized"
    /\ fnOut' = [fnOut EXCEPT !.reparsed = parseExerciseText(fnOut.serialized)]
    /\ fnPc' = "line_out"
    /\ UNCHANGED << fnIn, sessionVars, updaterVars >>

LineNext == LineParse \/ LineSerialize \/ LineReparse

SpecLine == LineInit /\ [][LineNext]_vars

\* C18: parsing the serialization of a parsed line gives the parse of the
\* line: same state, name, ordered params with all their fields,
\* targetDuration, recordedDuration and restAfter.
C18_ReparseEqualsParse ==
    fnPc = "line_out" => fnOut.reparsed = fnOut.parsed


----------------------------------------------------------------------------
(* applyProgression called twice on the same parameter list *)

\* calls made on one list
MaxCalls == 2

\* the expression Math.random(): it names no variable of the list
RandomCall == "Math.random()"

\* Math.random() in hundredths
RandomValues == {0, 50, 99}

\* Reps: [(r+1){1,2}v] or Reps: [(Math.random()){1,2}v]
CallReps ==
    { Param("Reps", v, TRUE, f, Some(100), Some(200)) :
        v \in ParamValues, f \in {Add("r", 100), Add(RandomCall, 0)} }

CallWeights ==
    { Param("Weight", v, TRUE, Add("w", 100), Some(100), Some(200)) : v \in ParamValues }

CallLists == { << r >> \o w : r \in CallReps, w \in OptSeq(CallWeights) }

CallInit ==
    /\ fnIn \in CallLists
    /\ fnOut = << >>
    /\ fnPc = "calls"
    /\ SessionIdle
    /\ UpdaterIdle

\* one call on the list: the argument as passed, the result, and the list as
\* the call leaves it (every changed parameter is a copy made with a spread)
Call ==
    /\ fnPc = "calls"
    /\ Len(fnOut) < MaxCalls
    /\ \E random \in RandomValues :
        fnOut' = Append(fnOut,
            [arg |-> fnIn,
             result |-> applyProgressionIn([n \in {RandomCall} |-> random], fnIn)])
    /\ fnIn' = fnIn
    /\ UNCHANGED << fnPc, sessionVars, updaterVars >>

CallNext == Call

SpecCalls == CallInit /\ [][CallNext]_vars

\* C20: two calls of applyProgression on equal parameter lists return equal
\* parameter lists and equal shouldAddSet, and a call leaves the list and
\* the parameters it was given as they were.
C20_PureFunctionOfInput ==
    /\ \A k \in 1..Len(fnOut) : fnOut[k].arg = fnIn
    /\ Len(fnOut) = MaxCalls => fnOut[1].result = fnOut[MaxCalls].result

----------------------------------------------------------------------------
(* Completion and the exercises left unfinished *)

\* the exercise at i was not finished when the workout was completed
Unfinished(workout, i) == workout.exercises[i].state \in {"pending", "inProgress"}

\* the reset left the unfinished exercises as they were: values kept, no set
\* added for them
UnfinishedKept(before, after) ==
    \A i \in 1..Len(before.exercises) :
        Unfinished(before, i) =>
            /\ i \notin AdditionIndices(before.exercises)
            /\ LET e == before.exercises[i]
                   params == removeRecordedDurations(e)
                   r == after.exercises[IndexAfterReset(before.exercises, i)]
               IN  \A j \in 1..Len(params) : r.params[j].value = params[j].value

\* C32: when a callback resumes from the logger and resets the completed
\* workout, an exercise that was still pending or in progress at completion
\* keeps its parameter values and adds no set.
C32_OnlyCompletedProgress ==
    [][\A k \in 1..Len(logQueue) :
          LET c == logQueue[k].slot
          IN  logQueue' = RemoveAt(logQueue, k)
                => UnfinishedKept(closures[c].parsed, closures'[c].parsed)]_vars
\* every completion has returned: each callback resumed from the logger and
\* each write was applied
CompletionReturned == logged # << >> /\ logQueue = << >> /\ writeQueue = << >>

\* C33: once every completion path of the session has returned, the timer
\* started at Start is not running, and stopping a timer again changes
\* nothing.
C33_NoTimerAfterCompletion ==
    /\ (IsDef(sessionId) /\ CompletionReturned)
          => ~isTimerRunning(timers, Val(sessionId))
    /\ \A c \in 1..MaxClosures :
          LET id == closures[c].workoutId
          IN  stopWorkoutTimer(stopWorkoutTimer(timers, id), id)
                 = stopWorkoutTimer(timers, id)
----------------------------------------------------------------------------
(* A workout completed session after session, without edits *)

\* completions of one workout
MaxCompletions == 8

\* Reps: [(r+0.5){i,2}v] or [(r+1){i,2}v], the initial value 1 or unset
RepeatReps ==
    { Param("Reps", v, TRUE, Add("r", a), i, Some(200)) :
        v \in ParamValues, a \in {50, 100}, i \in Opt({100}) }

\* Weight: [(w+1){j,2}v] or [(w+r){j,2}v], the initial value 1 or unset
RepeatWeights ==
    { Param("Weight", v, TRUE, f, j, Some(200)) :
        v \in ParamValues, f \in {Add("w", 100), AddVar("w", "r")}, j \in Opt({100}) }

\* a planned block of one exercise
RepeatWorkouts ==
    { Workout(Metadata("T", "planned", Undef, Undef, Undef),
              << Exercise("A", "pending", << r >> \o w, Undef, Undef, Undef) >>) :
        r \in RepeatReps, w \in OptSeq(RepeatWeights) }

\* the workout as the session leaves it when every exercise was finished and
\* the last Finish completed the workout
FinishedWorkout(workout) ==
    [workout EXCEPT
        !.metadata.state = "completed",
        !.metadata.startDate = Some(1),
        !.metadata.duration = Some(0),
        !.exercises = [i \in 1..Len(@) |-> [@[i] EXCEPT !.state = "completed"]]]

RepeatInit ==
    /\ fnIn \in RepeatWorkouts
    /\ fnOut = [prev |-> fnIn, workout |-> fnIn, n |-> 0]
    /\ fnPc = "repeat"
    /\ SessionIdle
    /\ UpdaterIdle

\* one session: Start, every exercise finished, the completion's lock and
\* reset
\* another session can be run: the bounds on the sessions and on the sets
CanComplete ==
    /\ fnPc = "repeat"
    /\ fnOut.n < MaxCompletions
    /\ Len(fnOut.workout.exercises) <= MaxSets

Complete ==
    /\ CanComplete
    /\ fnOut' = [prev |-> fnOut.workout,
                 workout |-> resetWorkout(lockAllFields(FinishedWorkout(fnOut.workout))),
                 n |-> fnOut.n + 1]
    /\ UNCHANGED << fnIn, fnPc, sessionVars, updaterVars >>

RepeatNext == Complete

SpecRepeat == RepeatInit /\ [][RepeatNext]_vars

\* the workout is completed again and again: weak fairness of Complete.
\* Complete changes fnOut.n whenever CanComplete holds, so that
\* ENABLED <<Complete>>_vars is CanComplete, and fnOut.n is bounded, so that
\* no behaviour takes Complete infinitely often: WF_vars(Complete) is
\* []<>~CanComplete here, which is how it is written
CompleteFair == []<>(~CanComplete)

SpecRepeatFair == SpecRepeat /\ CompleteFair

\* the parameters of the first set at the start, before the last completion
\* and now
StartParams == fnIn.exercises[1].params
PrevParams == fnOut.prev.exercises[1].params
NowParams == fnOut.workout.exercises[1].params

\* the parameter at j jumps over its max in the first session: its value
\* below max, its formula result above
JumpsOverMax(params, j) ==
    /\ HasFormula(params[j]) /\ HasMax(params[j])
    /\ params[j].value < Val(params[j].maxValue)
    /\ OwnStep(params[j]) > Val(params[j].maxValue)
    /\ IsWeight(params[j]) => AnyPass1Wrapped(params)

\* C34 as stated: a parameter that jumped over its max is capped at max and
\* stays at max in every later session.
C34_CappedThenStalls ==
    (fnPc = "repeat" /\ fnOut.n >= 1) =>
        \A j \in 1..Len(StartParams) :
            JumpsOverMax(StartParams, j)
                => NowParams[j].value = Val(StartParams[j].maxValue)

\* C34 amended: a parameter that jumped over its max is capped at max, not
\* wrapped, in that session; in the next session that progresses it, its
\* value now at max, it wraps: it is reset to initial, or marked wrapped with
\* its value kept when initial is unset.
C34_CappedThenWraps ==
    fnPc = "repeat" =>
        \A j \in 1..Len(StartParams) :
            JumpsOverMax(StartParams, j) =>
                /\ fnOut.n = 1 =>
                      /\ NowParams[j].value = Val(StartParams[j].maxValue)
                      /\ ~WrapsIn(StartParams, j)
                /\ (fnOut.n = 2 /\ (IsWeight(PrevParams[j]) => AnyPass1Wrapped(PrevParams))) =>
                      /\ WrapsIn(PrevParams, j)
                      /\ NowParams[j].value =
                            IF IsDef(StartParams[j].initialValue)
                            THEN Val(StartParams[j].initialValue)
                            ELSE Val(StartParams[j].maxValue)

\* Reps (r+1){1,2}1.5: capped at 2 in the first session, back at 1 after the
\* second
C34_Witness ==
    /\ fnPc = "repeat" /\ fnOut.n = 2
    /\ \E j \in 1..Len(StartParams) :
          /\ IsReps(StartParams[j]) /\ JumpsOverMax(StartParams, j)
          /\ PrevParams[j].value = 200
          /\ NowParams[j].value = 100
----------------------------------------------------------------------------
(* Start and the re-parse that observes it *)

\* the write of Start is about to be applied and re-parsed, nothing but Start
\* and re-parses having run: no completion was logged before or since, the
\* closure still holds what Start wrote and no other call is in flight
StartObserved ==
    /\ sessions = 1 /\ logged = << >>
    /\ Len(writeQueue) = 1 /\ logQueue = << >>
    /\ writeQueue[1].by = "start"
    /\ writeQueue[1].content.metadata.state = "started"
    /\ serializeWorkout(closures[writeQueue[1].slot].parsed) = writeQueue[1].content
    /\ writeQueue[1].content # closures[live].source

----------------------------------------------------------------------------
(* Bounds kept and sets added over the sessions *)

\* the parameter at j started with a formula, a max, an initial value not
\* above max and a value not above max
StartsWithinMax(j) ==
    LET p == StartParams[j]
    IN  /\ HasFormula(p) /\ HasMax(p) /\ IsDef(p.initialValue)
        /\ Val(p.initialValue) <= Val(p.maxValue)
        /\ p.value <= Val(p.maxValue)

\* C36: a parameter with a formula, a max and an initial value not above
\* max, whose value starts not above max, is not above max in any set after
\* any number of completions without edits.
C36_NeverAboveMax ==
    fnPc = "repeat" =>
        \A i \in 1..Len(fnOut.workout.exercises) :
            LET params == fnOut.workout.exercises[i].params
            IN  \A j \in 1..Len(params) :
                    StartsWithinMax(j) => params[j].value <= Val(params[j].maxValue)

\* after five sessions: reps and weight both at max, having started below it
C36_Witness ==
    /\ fnPc = "repeat" /\ fnOut.n = 5
    /\ Len(NowParams) = 2
    /\ \A j \in 1..2 :
          /\ StartsWithinMax(j)
          /\ StartParams[j].value < 200
          /\ NowParams[j].value = 200
\* Reps (r+a){i,m} and, when there is one, Weight (w+b){j,n}, with a, b > 0,
\* i <= m, j <= n and the starting values within the bounds
ProgressesWithinBounds(params) ==
    /\ \E j \in 1..Len(params) : IsReps(params[j])
    /\ \A j \in 1..Len(params) :
          LET p == params[j]
          IN  /\ p.formula.op = "add" /\ p.formula.k > 0
              /\ IsDef(p.initialValue) /\ IsDef(p.maxValue)
              /\ Val(p.initialValue) <= p.value /\ p.value <= Val(p.maxValue)

\* the last session added a set
SetAdded ==
    fnOut.n >= 1 /\ Len(fnOut.workout.exercises) > Len(fnOut.prev.exercises)

\* in the last session reps wrapped, and so did the weight if there is one
AllWrapped ==
    /\ fnOut.n >= 1
    /\ \A j \in 1..Len(PrevParams) :
          (IsReps(PrevParams[j]) \/ IsWeight(PrevParams[j])) => WrapsIn(PrevParams, j)

\* C37: with bounded, increasing reps and weight that start within their
\* bounds, completing the workout again and again leads to a session in
\* which reps and weight both wrap and a set is added; without a weight
\* parameter, to one in which reps wrap and a set is added.
C37_SetEventuallyAdded ==
    (fnPc = "repeat" /\ ProgressesWithinBounds(StartParams))
        => <>(SetAdded /\ AllWrapped)

\* the sixth session of Reps (r+0.5){1,2}1 with Weight (w+1){1,2}1: reps
\* wrapped for the second time, the weight with them, and a set was added
C37_Witness ==
    /\ fnPc = "repeat" /\ fnOut.n = 6
    /\ ProgressesWithinBounds(StartParams)
    /\ Len(StartParams) = 2
    /\ Len(fnIn.exercises) = Len(fnOut.prev.exercises)
    /\ SetAdded /\ AllWrapped

----------------------------------------------------------------------------
(* The brackets of the block written back after a completion *)

\* the text flushed to the source block, as the next render parses it
FlushedReset == parseWorkout(serializeWorkout(fnOut.workout))

\* the parameter at j of the exercise at i, editable at the start of the
\* session and not a Duration, is editable in the block written back
EditableAgain(i, j) ==
    LET before == fnOut.prev.exercises[i].params[j]
        after == FlushedReset.exercises[IndexAfterReset(
                     FinishedWorkout(fnOut.prev).exercises, i)].params[j]
    IN  (before.editable /\ ~IsDuration(before)) => after.editable

\* C38: after a completion and its reset, every parameter other than a
\* Duration that was editable when the session started is editable in the
\* workout flushed to the source block.
C38_EditableAfterReset ==
    (fnPc = "repeat" /\ fnOut.n > 0) =>
        \A i \in 1..Len(fnOut.prev.exercises) :
            \A j \in 1..Len(fnOut.prev.exercises[i].params) : EditableAgain(i, j)

----------------------------------------------------------------------------
(* Two workout blocks in one note, one TimerManager *)

\* sessions started over the two blocks
MaxBlockSessions == 2

Blocks == {1, 2}

PlainReps == Param("Reps", 100, TRUE, NoFormula, Undef, Undef)

\* blocks titled T or U, with the exercise A or the exercises A and B
BlockWorkouts ==
    {Workout(Metadata(title, "planned", Undef, Undef, Undef), exs) :
        title \in {"T", "U"},
        exs \in {<< Exercise("A", "pending", << PlainReps >>, Undef, Undef, Undef) >>,
                 << Exercise("A", "pending", << PlainReps >>, Undef, Undef, Undef),
                    Exercise("B", "pending", << PlainReps >>, Undef, Undef, Undef) >>}}

\* the workout id processWorkoutBlock gives a block of the note: the path
\* of the note, the same for both blocks, and the hash of the parsed text
BlockId(parsed) == getWorkoutHash(parsed)

BlocksInit ==
    /\ fnIn \in [Blocks -> BlockWorkouts]
    /\ fnOut = fnIn
    /\ fnPc = "blocks"
    /\ SessionIdle
    /\ UpdaterIdle

\* the write of block b is applied and the block is rendered again
BlockWritten(b, newParsed, t) ==
    /\ fnOut' = [fnOut EXCEPT ![b] = newParsed]
    /\ timers' = SyncTimer(t, BlockId(newParsed), newParsed)
    /\ UNCHANGED << file, closures, live, logQueue, writeQueue, sectionAvail,
                    logged, sessionId, scripted, fnIn, fnPc, updaterVars >>

\* the Start button of block b
BlockStart(b) ==
    LET parsed == fnOut[b]
        firstPending == FirstPending(parsed.exercises)
        started == [parsed EXCEPT !.metadata.state = "started",
                                  !.metadata.startDate = Some(1)]
        newParsed == IF firstPending > 0
                     THEN [started EXCEPT !.exercises[firstPending].state = "inProgress"]
                     ELSE started
    IN  /\ fnPc = "blocks"
        /\ parsed.metadata.state = "planned"
        /\ sessions < MaxBlockSessions
        /\ sessions' = sessions + 1
        /\ BlockWritten(b, newParsed,
                        startWorkoutTimer(timers, BlockId(parsed),
                                          IF firstPending > 0 THEN firstPending ELSE 1))

\* the active exercise of block b is finished: the next pending exercise
\* becomes active, or the workout completes, is reset and its timer stopped
BlockExerciseFinish(b) ==
    LET parsed == fnOut[b]
        id == BlockId(parsed)
        exerciseIndex == ActiveIndex(parsed.exercises)
        recorded == RecordDuration(parsed, exerciseIndex, timers, id)
        done == updateExerciseState(recorded, exerciseIndex, "completed")
        nextPending == NextPending(done.exercises, exerciseIndex)
    IN  /\ fnPc = "blocks"
        /\ parsed.metadata.state = "started"
        /\ exerciseIndex > 0
        /\ UNCHANGED sessions
        /\ IF nextPending > 0
           THEN BlockWritten(b, updateExerciseState(done, nextPending, "inProgress"),
                             advanceExercise(timers, id, nextPending))
           ELSE BlockWritten(b, resetWorkout(CompleteWorkout(done, timers, id)),
                             stopWorkoutTimer(timers, id))

\* block b is rendered again from its unchanged text
BlockRender(b) ==
    /\ fnPc = "blocks"
    /\ timers' = SyncTimer(timers, BlockId(fnOut[b]), fnOut[b])
    /\ UNCHANGED << file, closures, live, logQueue, writeQueue, sectionAvail,
                    logged, sessionId, scripted, sessions, fnVars >>

BlocksNext ==
    \E b \in Blocks :
        \/ BlockStart(b)
        \/ BlockExerciseFinish(b)
        \/ BlockRender(b)

SpecBlocks == BlocksInit /\ [][BlocksNext]_vars

\* the timer of the other block is as it was: running or not, and on the
\* same exercise
OtherUntouched(b) ==
    \A o \in Blocks \ {b} :
        LET id == BlockId(fnOut[o])
        IN  /\ isTimerRunning(timers', id) = isTimerRunning(timers, id)
            /\ isTimerRunning(timers, id) =>
                   timers'[id].activeExerciseIndex = timers[id].activeExerciseIndex

\* C39: starting, advancing or completing one of two blocks of a note
\* leaves the timer of the other block as it was, whatever the titles and
\* the exercise names of the two blocks.
C39_BlocksShareNoTimer ==
    [][\A b \in Blocks :
          (BlockStart(b) \/ BlockExerciseFinish(b)) => OtherUntouched(b)]_vars

----------------------------------------------------------------------------
(* The lines updateCodeBlock leaves alone *)

\* the call of p ran its vault.process callback in this step
Processed(p) == calls[p].pc = "inSection" /\ calls'[p].pc = "processed"

\* the call of p returned before taking the lock in this step
Refused(p) == calls[p].pc = "idle" /\ calls'[p].pc = "done"

\* the note has the new content between the fences its block had, and every
\* other line as it was
BetweenFences(p) ==
    LET block == getSectionInfo(vault.lines)
    IN  /\ IsDef(block)
        /\ vault'.lines = Slice(vault.lines, 0, Val(block).lineStart + 1)
                            \o calls[p].newContent
                            \o Slice(vault.lines, Val(block).lineEnd, Len(vault.lines))

\* C40: a successful updateCodeBlock replaces exactly the lines strictly
\* between the opening and the closing fence of the block with the new
\* content, every other line staying where it was, and a failed call
\* leaves the whole content unchanged.
C40_OnlyBetweenFences ==
    [][\A p \in Callers :
          /\ Processed(p) => IF calls'[p].result THEN BetweenFences(p)
                                                ELSE vault' = vault
          /\ Refused(p) => vault' = vault]_vars
====
